---------------------------- MODULE Spec2Model ----------------------------
(***************************************************************************)
(* Sprint detection (src/src/metrics.py, src/src/eda.py) and the phase     *)
(* join (enrich_sprints_with_phases) as state machines.                    *)
(*                                                                         *)
(* Numbers.  The code computes in float64; the model computes in exact     *)
(* rationals [n |-> numerator, d |-> denominator], reduced, d > 0.  The     *)
(* missing value (NaN / None) is the record with d = 0.  Positions are in  *)
(* metres, speeds in km/h, durations in seconds, as in the code.           *)
(***************************************************************************)
EXTENDS Integers, Sequences, FiniteSets, TLC

(***************************************************************************)
(* Exact rational arithmetic with a missing value.                         *)
(***************************************************************************)
Abs(i) == IF i < 0 THEN -i ELSE i

RECURSIVE GCD(_, _)
GCD(a, b) == IF b = 0 THEN a ELSE GCD(b, a % b)

Rat(num, den) ==
    LET g == GCD(Abs(num), den)
    IN  [n |-> num \div g, d |-> den \div g]

NaN == [n |-> 0, d |-> 0]

IsNaN(v) == v.d = 0

RInt(i) == [n |-> i, d |-> 1]

RAdd(a, b) == IF IsNaN(a) \/ IsNaN(b) THEN NaN
              ELSE LET g == GCD(a.d, b.d)
                   IN  Rat(a.n * (b.d \div g) + b.n * (a.d \div g),
                           (a.d \div g) * b.d)

RNeg(a) == [n |-> -a.n, d |-> a.d]

RSub(a, b) == RAdd(a, RNeg(b))

RMul(a, b) == IF IsNaN(a) \/ IsNaN(b) THEN NaN
              ELSE Rat(a.n * b.n, a.d * b.d)

\* a / b for b > 0
RDiv(a, b) == IF IsNaN(a) \/ IsNaN(b) THEN NaN
              ELSE Rat(a.n * b.d, a.d * b.n)

\* Comparisons of floats: every comparison with NaN is false.
RLt(a, b) == ~IsNaN(a) /\ ~IsNaN(b) /\ a.n * b.d < b.n * a.d
RLe(a, b) == ~IsNaN(a) /\ ~IsNaN(b) /\ a.n * b.d <= b.n * a.d
RGt(a, b) == RLt(b, a)
RGe(a, b) == RLe(b, a)

\* floor of the square root of a natural number, by bisection
RECURSIVE SqrtBetween(_, _, _)
SqrtBetween(k, lo, hi) ==
    IF lo >= hi THEN lo
    ELSE LET mid == (lo + hi + 1) \div 2
         IN  IF mid * mid <= k THEN SqrtBetween(k, mid, hi)
             ELSE SqrtBetween(k, lo, mid - 1)

ISqrt(k) == SqrtBetween(k, 0, IF k < 46340 THEN k ELSE 46340)

\* np.sqrt on a rational whose root is rational (every displacement of the
\* inputs below is one); NaN stays NaN.
RSqrt(a) == IF IsNaN(a) THEN NaN ELSE [n |-> ISqrt(a.n), d |-> ISqrt(a.d)]

(***************************************************************************)
(* Sequence helpers.                                                       *)
(***************************************************************************)
SetMin(S) == CHOOSE m \in S : \A o \in S : m <= o
SetMax(S) == CHOOSE m \in S : \A o \in S : m >= o

Min2(a, b) == IF a <= b THEN a ELSE b
Max2(a, b) == IF a >= b THEN a ELSE b

\* A sequence given as a function, as the tuple of its values.
Force(s) == s \o << >>

\* The pairs of indices of s, and a sequence's own index.
Pairs(s) == (1..Len(s)) \X (1..Len(s))
Index(s) == Force([k \in 1..Len(s) |-> k])

\* The elements of s at the indices in the set pass, in order.
SelectIdx(s, pass) ==
    LET keep == Force([i \in 1..Len(s) |-> i \in pass])
        rank == Force([i \in 1..Len(s) |->
                    Cardinality({j \in 1..i : keep[j]})])
    IN  Force([k \in 1..(IF Len(s) = 0 THEN 0 ELSE rank[Len(s)]) |->
            s[CHOOSE i \in 1..Len(s) : keep[i] /\ rank[i] = k]])

\* Stable sort of s under the strict order before, the set of the pairs of
\* indices <<i, j>> whose key at i is less than the key at j: the order pandas'
\* sort_values gives the rows, ties kept in input order.
SortBy(s, before) ==
    LET rank == Force([i \in 1..Len(s) |->
                    Cardinality({j \in 1..Len(s) :
                        \/ <<j, i>> \in before
                        \/ <<i, j>> \notin before /\ j <= i})])
    IN  Force([k \in 1..Len(s) |-> s[CHOOSE i \in 1..Len(s) : rank[i] = k]])

RSum(s) ==
    LET F[i \in 0..Len(s)] == IF i = 0 THEN RInt(0) ELSE RAdd(F[i - 1], s[i])
    IN  F[Len(s)]

DropNaN(s) == SelectIdx(s, {i \in 1..Len(s) : ~IsNaN(s[i])})


(***************************************************************************)
(* Program constants of detect_sprints.                                    *)
(***************************************************************************)
TRACKING_FPS == 10
SPRINT_THRESHOLD_KMH == Rat(49, 2)            \* 24.5
MAX_PHYSICAL_SPEED_KMH == RInt(36)
TELEPORT_THRESHOLD_M == Rat(3, 2)             \* 1.5, defined and never read
smooth_window == 11
mean_window == 7
MinRunLen == 6
MinRunSpeeds == 4
TeleportCut == RInt(1)                        \* distances > 1.0
SpeedCap == RInt(32)                          \* clip(upper=32.0)
KmhPerMs == Rat(36, 10)                       \* 3.6
AvgLow == Rat(49, 2)                          \* avg_speed_kmh < 24.5
AvgHigh == RInt(29)                           \* avg_speed_kmh > 29
MaxLow == RInt(26)                            \* max_speed_kmh < 26.0
MaxHigh == RInt(33)                           \* max_speed_kmh > 33.0
MinDistance == RInt(7)                        \* distance_m < 7.0
QuantileQ == Rat(9, 10)                       \* quantile(0.90)

(***************************************************************************)
(* eda.explode_player_tracking: one row per player per frame, in the order *)
(* of the frame rows and, within a row, of its player_data list.  The      *)
(* columns timestamp, period and is_detected are carried along by the code *)
(* and read by nothing in detect_sprints; the model leaves them out.       *)
(***************************************************************************)
explode_player_tracking(df) ==
    LET len   == Force([i \in 1..Len(df) |-> Len(df[i].player_data)])
        first == Force([i \in 1..Len(df) |->
                    1 + Cardinality(UNION {{<<j, k>> : k \in 1..len[j]} :
                                              j \in 1..(i - 1)})])
        total == IF Len(df) = 0 THEN 0 ELSE first[Len(df)] + len[Len(df)] - 1
    IN  Force([r \in 1..total |->
            LET i == CHOOSE j \in 1..Len(df) : first[j] <= r /\ r < first[j] + len[j]
                k == r - first[i] + 1
            IN  [frame |-> df[i].frame,
                 player_id |-> df[i].player_data[k].player_id,
                 x |-> df[i].player_data[k].x,
                 y |-> df[i].player_data[k].y]])

\* SortPlayerFrames sorting by frame alone
SortPlayerFrames_FrameOnly(rows) ==
    SortBy(rows, {ij \in Pairs(rows) : rows[ij[1]].frame < rows[ij[2]].frame})

\* sort_values(["player_id", "frame"]).reset_index(drop=True)
SortPlayerFrames(rows) ==
    SortBy(rows, {ij \in Pairs(rows) :
                    LET a == rows[ij[1]]
                        b == rows[ij[2]]
                    IN  \/ a.player_id < b.player_id
                        \/ /\ a.player_id = b.player_id
                           /\ a.frame < b.frame})

\* player_frames["player_id"].dropna().unique(): first appearances, in row order
UniquePlayers(rows) ==
    LET ids == Force([k \in 1..Len(rows) |-> rows[k].player_id])
    IN  SelectIdx(ids, {k \in 1..Len(ids) : \A j \in 1..(k - 1) : ids[j] # ids[k]})

\* PlayerRows taking the rows of every player up to p
PlayerRows_UpTo(rows, p) == SelectIdx(rows, {k \in 1..Len(rows) : rows[k].player_id <= p})

\* player_frames[player_frames["player_id"] == player_id]
PlayerRows(rows, p) == SelectIdx(rows, {k \in 1..Len(rows) : rows[k].player_id = p})

(***************************************************************************)
(* eda.calculate_distances.  The result is a Series in frame order: its    *)
(* k-th value belongs to the row whose label is FrameOrder(rows)[k].       *)
(***************************************************************************)
\* FrameOrder leaving the rows in the order given
FrameOrder_AsGiven(rows) == Index(rows)

\* sort_values("frame"): the row labels in ascending frame order
FrameOrder(rows) ==
    SortBy(Index(rows), {ij \in Pairs(rows) : rows[ij[1]].frame < rows[ij[2]].frame})

\* Displacement reading a missing coordinate as 0
Displacement_MissingAsZero(a, b) ==
    LET Z(v) == IF IsNaN(v) THEN RInt(0) ELSE v
        dx   == RSub(Z(b.x), Z(a.x))
        dy   == RSub(Z(b.y), Z(a.y))
    IN  RSqrt(RAdd(RMul(dx, dx), RMul(dy, dy)))

\* eda.py lines 60-64
Displacement(a, b) ==
    LET dx == RSub(b.x, a.x)
        dy == RSub(b.y, a.y)
    IN  RSqrt(RAdd(RMul(dx, dx), RMul(dy, dy)))

calculate_distances(rows) ==
    LET ord == FrameOrder(rows)
    IN  Force([k \in 1..Len(rows) |->
            IF k = 1 THEN NaN
            ELSE Displacement(rows[ord[k - 1]], rows[ord[k]])])

\* Assigning a Series to a column aligns it on the row labels.
AlignTo(series, index) ==
    [i \in 1..Len(series) |->
        series[CHOOSE k \in 1..Len(index) : index[k] = i]]

(***************************************************************************)
(* Signal conditioning.                                                    *)
(***************************************************************************)
\* TeleportMask reading the module constant of line 19 instead of the
\* literal of line 52
TeleportMask_Const(d) == RGt(d, TELEPORT_THRESHOLD_M)

\* teleport_mask = distances > 1.0
TeleportMask(d) == RGt(d, TeleportCut)

\* distances.mask(teleport_mask, np.nan)
MaskTeleport(d) == IF TeleportMask(d) THEN NaN ELSE d

\* distances * fps * 3.6
ToKmh(d, f) == RMul(RMul(d, RInt(f)), KmhPerMs)

\* ClipUpper leaving every speed as it is
ClipUpper_Unclipped(v) == v

\* clip(upper=32.0)
ClipUpper(v) == IF RGt(v, SpeedCap) THEN SpeedCap ELSE v

\* Window with the missing values read as 0
Window_ZeroFill(s, k, w) ==
    LET h  == (w - 1) \div 2
        lo == Max2(1, k - h)
        hi == Min2(Len(s), k + h)
    IN  Force([j \in 1..(hi - lo + 1) |->
                IF IsNaN(s[lo + j - 1]) THEN RInt(0) ELSE s[lo + j - 1]])

\* The values of s at the positions of a centred window of w around k that
\* exist, missing values dropped.
Window(s, k, w) ==
    LET h  == (w - 1) \div 2
        lo == Max2(1, k - h)
        hi == Min2(Len(s), k + h)
    IN  DropNaN(SubSeq(s, lo, hi))

Median(vals) ==
    LET srt == SortBy(vals, {ij \in Pairs(vals) : RLt(vals[ij[1]], vals[ij[2]])})
        c   == Len(srt)
    IN  IF c = 0 THEN NaN
        ELSE IF c % 2 = 1 THEN srt[(c + 1) \div 2]
        ELSE RDiv(RAdd(srt[c \div 2], srt[c \div 2 + 1]), RInt(2))

Mean(vals) ==
    IF Len(vals) = 0 THEN NaN ELSE RDiv(RSum(vals), RInt(Len(vals)))

\* rolling(window=w, center=True, min_periods=1).median()
RollingMedian(s, w) == Force([k \in 1..Len(s) |-> Median(Window(s, k, w))])

\* RollingMean giving no value where the edge of the series cuts the window
RollingMean_FullWindows(s, w) ==
    Force([k \in 1..Len(s) |->
        IF k - (w - 1) \div 2 < 1 \/ k + (w - 1) \div 2 > Len(s) THEN NaN
        ELSE Mean(Window(s, k, w))])

\* rolling(window=w, center=True, min_periods=1).mean()
RollingMean(s, w) == Force([k \in 1..Len(s) |-> Mean(Window(s, k, w))])

\* Series.quantile(q), linear interpolation, on values without NaN
Quantile(vals, q) ==
    LET srt  == SortBy(vals, {ij \in Pairs(vals) : RLt(vals[ij[1]], vals[ij[2]])})
        pos  == RMul(RInt(Len(srt) - 1), q)
        lo   == pos.n \div pos.d
        frac == RSub(pos, RInt(lo))
    IN  IF frac.n = 0 THEN srt[lo + 1]
        ELSE RAdd(srt[lo + 1], RMul(frac, RSub(srt[lo + 2], srt[lo + 1])))

(***************************************************************************)
(* Sprint segmentation and validation.                                     *)
(***************************************************************************)
\* IsSprinting with a missing speed counted as sprinting
IsSprinting_NaNSprints(v, thr) == IsNaN(v) \/ RGe(v, thr)

\* speed_smooth.fillna(0) >= threshold_kmh
IsSprinting(v, thr) == RGe(IF IsNaN(v) THEN RInt(0) ELSE v, thr)

\* (is_sprinting != is_sprinting.shift()).cumsum()
SprintGroup(flags) ==
    LET F[k \in 0..Len(flags)] ==
            IF k = 0 THEN << >>
            ELSE IF k = 1 THEN <<1>>
            ELSE LET prev == F[k - 1]
                 IN  Append(prev,
                            prev[k - 1] + (IF flags[k] # flags[k - 1] THEN 1 ELSE 0))
    IN  F[Len(flags)]

\* SprintGroupKeys visiting the groups from the last to the first
SprintGroupKeys_Descending(flags, grp) ==
    LET keys == SelectIdx(grp, {k \in 1..Len(grp) :
                        flags[k] /\ \A j \in 1..(k - 1) : grp[j] # grp[k]})
    IN  SortBy(keys, {ij \in Pairs(keys) : keys[ij[1]] > keys[ij[2]]})

\* the keys of pdf[pdf["is_sprinting"]].groupby("sprint_group"), ascending
SprintGroupKeys(flags, grp) ==
    LET keys == SelectIdx(grp, {k \in 1..Len(grp) :
                        flags[k] /\ \A j \in 1..(k - 1) : grp[j] # grp[k]})
    IN  SortBy(keys, {ij \in Pairs(keys) : keys[ij[1]] < keys[ij[2]]})

\* int(v) for a rational: truncation towards zero
IntTrunc(v) == IF v.n >= 0 THEN v.n \div v.d ELSE -((-v.n) \div v.d)

\* int((frame_start + frame_end) / 2)
MidFrame(fs, fe) == IntTrunc(Rat(fs + fe, 2))

\* (frame_end - frame_start + 1) / fps
Duration(fs, fe, f) == Rat(fe - fs + 1, f)

\* DistanceFromAvg without the km/h to m/s conversion
DistanceFromAvg_NoConversion(avg, dur) == RMul(avg, dur)

\* (avg_speed_kmh / 3.6) * duration_s
DistanceFromAvg(avg, dur) == RMul(RDiv(avg, KmhPerMs), dur)

AvgInRange(avg) == ~(RLt(avg, AvgLow) \/ RGt(avg, AvgHigh))
MaxInRange(mx) == ~(RLt(mx, MaxLow) \/ RGt(mx, MaxHigh))
\* DistanceEnough accepting any distance
DistanceEnough_Any(dist) == TRUE

\* distance_m < 7.0: continue
DistanceEnough(dist) == ~RLt(dist, MinDistance)

\* PassesValidation without the upper bound on the average speed
PassesValidation_NoAvgCeiling(avg, mx, dist) ==
    ~RLt(avg, AvgLow) /\ MaxInRange(mx) /\ DistanceEnough(dist)

\* the three `continue` checks of lines 109-114, negated
PassesValidation(avg, mx, dist) ==
    AvgInRange(avg) /\ MaxInRange(mx) /\ DistanceEnough(dist)


(***************************************************************************)
(* Inputs.  A track is a player's samples, built from the steps between    *)
(* consecutive samples.  Steps are (dx, dy) in units of 1/9000 m, so that  *)
(* every length below, 49/72 m included, sits on the grid; each step has a *)
(* rational length.                                                        *)
(***************************************************************************)
MaxPre == 9
MaxRun == 18
MaxPost == 9
GapLen == 3

Still    == <<0, 0>>
Step0375 == <<2025, 2700>>     \* 0.375 m: 13.5 km/h at 10 fps, 27 at 20 fps
Step0681 == <<6125, 0>>        \* 49/72 m: exactly 24.5 km/h at 10 fps
Step070  == <<3780, 5040>>     \* 0.70 m: 25.2 km/h
Step075  == <<4050, 5400>>     \* 0.75 m: 27.0 km/h
Step085  == <<7650, 0>>        \* 0.85 m: 30.6 km/h
Step100  == <<5400, 7200>>     \* 1.00 m: 36 km/h, capped to 32
Step105  == <<5670, 7560>>     \* 1.05 m: above the teleport cut
Step500  == <<27000, 36000>>   \* 5 m: a teleport

RunKinds == {Step0375, Step0681, Step070, Step075, Step085, Step100, Step105,
             Step500}
PostKinds == {Still, Step500}
FpsChoices == {TRACKING_FPS, 2 * TRACKING_FPS}

Repeat(e, k) == [i \in 1..k |-> e]

Range(s) == {s[i] : i \in 1..Len(s)}

\* Samples of player p from frame f0 on: steps between consecutive samples,
\* the samples in miss without a position, gap frames skipped after sample
\* gapAt (gap = 0: none).
Track(p, f0, steps, miss, gapAt, gap) ==
    LET X[i \in 1..(Len(steps) + 1)] == IF i = 1 THEN 0 ELSE X[i - 1] + steps[i - 1][1]
        Y[i \in 1..(Len(steps) + 1)] == IF i = 1 THEN 0 ELSE Y[i - 1] + steps[i - 1][2]
    IN  Force([i \in 1..(Len(steps) + 1) |->
            [frame |-> f0 + (i - 1) + (IF i > gapAt THEN gap ELSE 0),
             player_id |-> p,
             x |-> IF i \in miss THEN NaN ELSE Rat(X[i], 9000),
             y |-> IF i \in miss THEN NaN ELSE Rat(Y[i], 9000)]])

Reverse(s) == Force([k \in 1..Len(s) |-> s[Len(s) + 1 - k]])

\* The tracking table of some players' tracks: one row per frame that has a
\* sample, the rows in ascending or descending frame order, each row's
\* player_data in the order of `tracks` or in the reverse order.
BuildTracking(tracks, framesAsc, playersAsc) ==
    LET all    == UNION {Range(tracks[t]) : t \in 1..Len(tracks)}
        fset   == {sm.frame : sm \in all}
        lo     == SetMin(fset)
        hi     == SetMax(fset)
        span   == Force([k \in 1..(hi - lo + 1) |-> lo + k - 1])
        asc    == SelectIdx(span, {k \in 1..Len(span) : span[k] \in fset})
        frames == IF framesAsc THEN asc ELSE Reverse(asc)
        order  == IF playersAsc THEN tracks ELSE Reverse(tracks)
        RowOf(f) ==
            LET here == SelectIdx(order, {t \in 1..Len(order) :
                            \E i \in 1..Len(order[t]) : order[t][i].frame = f})
            IN  [frame |-> f,
                 player_data |->
                    Force([k \in 1..Len(here) |->
                        LET sm == here[k][CHOOSE i \in 1..Len(here[k]) :
                                              here[k][i].frame = f]
                        IN  [player_id |-> sm.player_id, x |-> sm.x, y |-> sm.y]])]
    IN  IF all = {} THEN << >>
        ELSE Force([k \in 1..Len(frames) |-> RowOf(frames[k])])

ProfileSteps(pre, run, kind, post, postKind) ==
    Repeat(Still, pre) \o Repeat(kind, run) \o Repeat(postKind, post)

\* One player: pre samples standing still, run steps of one kind, post steps
\* of another.
CleanInputs ==
    { [df  |-> BuildTracking(
                  <<Track(1, 0, ProfileSteps(pre, run, kind, post, pk), {}, 0, 0)>>,
                  TRUE, TRUE),
       fps |-> f]
      : pre \in {0, MaxPre}, run \in 0..MaxRun, kind \in RunKinds,
        post \in {0, MaxPost}, pk \in PostKinds, f \in FpsChoices }

\* One player sprinting at 27 km/h, with one defect at sample `at` of the run:
\* a 5 m jump, a sample without position, or frames missing from the track.
DefectTrack(pre, at, defect) ==
    LET base == ProfileSteps(pre, MaxRun, Step075, MaxPost, Still)
        k    == pre + at
    IN  Track(1, 0,
              IF defect = "teleport" THEN [base EXCEPT ![k] = Step500] ELSE base,
              IF defect = "missing" THEN {k + 1} ELSE {},
              IF defect = "gap" THEN k + 1 ELSE 0,
              IF defect = "gap" THEN GapLen ELSE 0)

DefectInputs ==
    { [df  |-> BuildTracking(<<DefectTrack(pre, at, defect)>>, TRUE, TRUE),
       fps |-> TRACKING_FPS]
      : pre \in {0, MaxPre}, at \in {2, MaxRun \div 2, MaxRun},
        defect \in {"teleport", "missing", "gap"} }

\* Three players; each is absent, has a track too short to smooth, one
\* sprint, or two sprints; player p's track starts at frame 2 * (3 - p), so
\* a higher player id starts earlier.  Rows and player lists in both orders.
BurstLen == 14
RestLen == 12

PlayerTrack(p, what) ==
    LET f0 == 2 * (3 - p)
    IN  CASE what = "short"  -> Track(p, f0, Repeat(Step075, smooth_window - 2), {}, 0, 0)
          [] what = "one"    -> Track(p, f0, Repeat(Step075, BurstLen), {}, 0, 0)
          [] what = "two"    -> Track(p, f0,
                                      Repeat(Step075, BurstLen) \o Repeat(Still, RestLen)
                                        \o Repeat(Step075, BurstLen),
                                      {}, 0, 0)
          [] OTHER           -> << >>

MultiInputs ==
    { [df  |-> BuildTracking(<<PlayerTrack(1, w[1]), PlayerTrack(2, w[2]),
                               PlayerTrack(3, w[3])>>, fa, pa),
       fps |-> TRACKING_FPS]
      : w \in [1..3 -> {"absent", "short", "one", "two"}],
        fa \in BOOLEAN, pa \in BOOLEAN }

Inputs == CleanInputs \cup DefectInputs \cup MultiInputs

(***************************************************************************)
(* State.                                                                  *)
(***************************************************************************)
VARIABLES
    tracking_df,      \* detect_sprints' argument: frame rows with player_data
    match_id,         \* detect_sprints' argument
    fps,              \* detect_sprints' argument
    threshold_kmh,    \* detect_sprints' argument
    player_frames,    \* exploded rows, sorted by player_id and frame
    players,          \* player ids the loop of line 43 has still to visit
    pdf,              \* the current player's rows
    series_index,     \* row labels of the Series calculate_distances returns
    teleport_mask,
    distances,
    speeds_kmh,
    speeds_smooth,    \* the smoothed Series, in Series order
    speed_smooth,     \* pdf["speed_smooth"]
    is_sprinting,     \* pdf["is_sprinting"]
    sprint_group,     \* pdf["sprint_group"]
    groups,           \* group keys the loop of line 84 has still to visit
    candidates,       \* the locals of line 104, one record per run that got there
    sprints_list,
    sprints_df,       \* the table detect_sprints returns
    phases_df,        \* enrich_sprints_with_phases' second argument
    enrich_pos,       \* rows of sprints_df the loop of line 153 has visited
    enriched_sprints,
    enriched_df,      \* the table enrich_sprints_with_phases returns
    files,            \* per match id, the kinds of file that can be loaded
    match_ids,        \* match ids the loop of loaders.py line 117 has still to visit
    all_data,         \* the dict load_all_matches builds
    run,              \* which run of the pipeline on this input: 1 or 2
    first_result,     \* what the first run returned
    config,           \* the module constants of metrics.py lines 18-19, as the caller set them
    player_tracking,  \* get_player_summary's argument: one row per player per frame
    player_id,        \* get_player_summary's argument
    minutes_played_lookup, \* get_player_summary's argument, None or a dict
    player_data,      \* get_player_summary's rows of player_id
    valid_speeds,     \* get_player_summary's filtered speeds
    summary,          \* the dict get_player_summary returns
    controls,         \* the comparison widget's controls: value and options of each
    updating_filters, \* updating_filters["active"]
    suppress_plot,    \* suppress_plot["active"]
    initializing,     \* initializing["active"]
    stack,            \* the callbacks of the widget that are running, innermost last
    main,             \* where the body of create_comparison_widget stands
    log,              \* what the callbacks have done since the last top-level event
    events,           \* how many times the user has changed a control
    pc

vars == <<tracking_df, match_id, fps, threshold_kmh, player_frames, players,
          pdf, series_index, teleport_mask, distances, speeds_kmh,
          speeds_smooth, speed_smooth, is_sprinting, sprint_group, groups,
          candidates, sprints_list, sprints_df, phases_df, enrich_pos, enriched_sprints,
          enriched_df, files, match_ids, all_data, run, first_result, config,
          player_tracking, player_id, minutes_played_lookup, player_data,
          valid_speeds, summary, controls, updating_filters, suppress_plot,
          initializing, stack, main, log, events, pc>>

loaderVars == <<files, match_ids, all_data>>
runVars == <<run, first_result>>

summaryVars == <<player_tracking, player_id, minutes_played_lookup,
                 player_data, valid_speeds, summary>>

widgetVars == <<controls, updating_filters, suppress_plot, initializing,
                stack, main, log, events>>

\* what no step of the detection, the phase join or the flags changes
inputVars == <<tracking_df, match_id, fps, threshold_kmh, loaderVars, runVars,
               config, summaryVars, widgetVars>>
seriesVars == <<series_index, teleport_mask, distances, speeds_kmh,
                speeds_smooth, speed_smooth, is_sprinting, sprint_group, groups>>
enrichVars == <<phases_df, enrich_pos, enriched_sprints, enriched_df>>

DefaultConfig ==
    [max_physical_speed_kmh |-> MAX_PHYSICAL_SPEED_KMH,
     teleport_threshold_m |-> TELEPORT_THRESHOLD_M]

NoResult == [sprints |-> << >>, enriched |-> << >>, outcome |-> "none"]

FirstRun ==
    /\ run = 1
    /\ first_result = NoResult

NoSummary ==
    /\ player_tracking = << >>
    /\ player_id = 0
    /\ minutes_played_lookup = << >>
    /\ player_data = << >>
    /\ valid_speeds = << >>
    /\ summary = << >>

NoWidget ==
    /\ controls = << >>
    /\ updating_filters = FALSE
    /\ suppress_plot = FALSE
    /\ initializing = FALSE
    /\ stack = << >>
    /\ main = "none"
    /\ log = << >>
    /\ events = 0

NoLoad ==
    /\ files = << >>
    /\ match_ids = << >>
    /\ all_data = << >>

NoSeries ==
    /\ series_index = << >>
    /\ teleport_mask = << >>
    /\ distances = << >>
    /\ speeds_kmh = << >>
    /\ speeds_smooth = << >>
    /\ speed_smooth = << >>
    /\ is_sprinting = << >>
    /\ sprint_group = << >>
    /\ groups = << >>

InitDetect(inp) ==
    /\ tracking_df = inp.df
    /\ match_id = "m1"
    /\ fps = inp.fps
    /\ threshold_kmh = SPRINT_THRESHOLD_KMH
    /\ player_frames = << >>
    /\ players = << >>
    /\ pdf = << >>
    /\ NoSeries
    /\ NoLoad
    /\ FirstRun
    /\ config = DefaultConfig
    /\ NoSummary
    /\ NoWidget
    /\ candidates = << >>
    /\ sprints_list = << >>
    /\ sprints_df = << >>
    /\ phases_df = << >>
    /\ enrich_pos = 0
    /\ enriched_sprints = << >>
    /\ enriched_df = << >>
    /\ pc = "explode"

Init == \E inp \in Inputs : InitDetect(inp)


(***************************************************************************)
(* detect_sprints, one action per step of its body.                        *)
(***************************************************************************)
\* lines 37-43: explode, sort, and the player ids the loop will visit
Explode ==
    /\ pc = "explode"
    /\ player_frames' = SortPlayerFrames(explode_player_tracking(tracking_df))
    /\ players' = UniquePlayers(player_frames')
    /\ pc' = "players"
    /\ UNCHANGED <<inputVars, pdf, seriesVars, candidates, sprints_list,
                   sprints_df, enrichVars>>

\* TooShort skipping no track
TooShort_Never(rows) == FALSE

\* len(pdf) < smooth_window: continue
TooShort(rows) == Len(rows) < smooth_window

\* lines 43-46: the next player's rows; a short track is skipped
NextPlayer ==
    /\ pc = "players"
    /\ players # << >>
    /\ pdf' = PlayerRows(player_frames, Head(players))
    /\ players' = Tail(players)
    /\ pc' = IF TooShort(pdf') THEN "players" ELSE "distances"
    /\ series_index' = << >>
    /\ teleport_mask' = << >>
    /\ distances' = << >>
    /\ speeds_kmh' = << >>
    /\ speeds_smooth' = << >>
    /\ speed_smooth' = << >>
    /\ is_sprinting' = << >>
    /\ sprint_group' = << >>
    /\ groups' = << >>
    /\ UNCHANGED <<inputVars, player_frames, candidates, sprints_list,
                   sprints_df, enrichVars>>

\* line 49
CalcDistances ==
    /\ pc = "distances"
    /\ distances' = calculate_distances(pdf)
    /\ series_index' = FrameOrder(pdf)
    /\ pc' = "teleport"
    /\ UNCHANGED <<inputVars, player_frames, players, pdf, teleport_mask,
                   speeds_kmh, speeds_smooth, speed_smooth, is_sprinting,
                   sprint_group, groups, candidates, sprints_list, sprints_df,
                   enrichVars>>

\* lines 52-53
RemoveTeleports ==
    /\ pc = "teleport"
    /\ teleport_mask' = [k \in 1..Len(distances) |-> TeleportMask(distances[k])]
    /\ distances' = [k \in 1..Len(distances) |-> MaskTeleport(distances[k])]
    /\ pc' = "convert"
    /\ UNCHANGED <<inputVars, player_frames, players, pdf, series_index,
                   speeds_kmh, speeds_smooth, speed_smooth, is_sprinting,
                   sprint_group, groups, candidates, sprints_list, sprints_df,
                   enrichVars>>

\* lines 56-60
ConvertSpeeds ==
    /\ pc = "convert"
    /\ speeds_kmh' = [k \in 1..Len(distances) |-> ClipUpper(ToKmh(distances[k], fps))]
    /\ pc' = "smooth"
    /\ UNCHANGED <<inputVars, player_frames, players, pdf, series_index,
                   teleport_mask, distances, speeds_smooth, speed_smooth,
                   is_sprinting, sprint_group, groups, candidates, sprints_list,
                   sprints_df, enrichVars>>

\* lines 63-70
TwoStageSmooth(s) == RollingMean(RollingMedian(s, smooth_window), mean_window)

\* lines 63-72
Smooth ==
    /\ pc = "smooth"
    /\ speeds_smooth' = TwoStageSmooth(speeds_kmh)
    /\ speed_smooth' = AlignTo(speeds_smooth', series_index)
    /\ pc' = "flag"
    /\ UNCHANGED <<inputVars, player_frames, players, pdf, series_index,
                   teleport_mask, distances, speeds_kmh, is_sprinting,
                   sprint_group, groups, candidates, sprints_list, sprints_df,
                   enrichVars>>

\* lines 75-82
DetectSprintFrames ==
    /\ pc = "flag"
    /\ is_sprinting' = [k \in 1..Len(speed_smooth) |->
                            IsSprinting(speed_smooth[k], threshold_kmh)]
    /\ sprint_group' = SprintGroup(is_sprinting')
    /\ groups' = SprintGroupKeys(is_sprinting', sprint_group')
    /\ pc' = "runs"
    /\ UNCHANGED <<inputVars, player_frames, players, pdf, series_index,
                   teleport_mask, distances, speeds_kmh, speeds_smooth,
                   speed_smooth, candidates, sprints_list, sprints_df,
                   enrichVars>>

\* the rows of one group of pdf[pdf["is_sprinting"]].groupby("sprint_group")
GroupRows(flags, grp, g) ==
    SelectIdx(Index(flags), {k \in 1..Len(flags) : flags[k] /\ grp[k] = g})

\* RunTooShort discarding runs of exactly the minimum length too
RunTooShort_AtMost(idx) == Len(idx) <= MinRunLen

\* len(sprint) < 6: continue
RunTooShort(idx) == Len(idx) < MinRunLen

\* TooFewSpeeds asking for more speeds than the shortest run has rows
TooFewSpeeds_BelowSeven(sp) == Len(sp) = 0 \/ Len(sp) < MinRunLen + 1

\* sprint_speeds.empty or len(sprint_speeds) < 4: continue
TooFewSpeeds(sp) == Len(sp) = 0 \/ Len(sp) < MinRunSpeeds

\* lines 88-104: the locals of one iteration that reached line 104
RunStats(rows, smooth, idx, mid, f, p) ==
    LET fs  == SetMin({rows[idx[i]].frame : i \in 1..Len(idx)})
        fe  == SetMax({rows[idx[i]].frame : i \in 1..Len(idx)})
        sp  == DropNaN(Force([i \in 1..Len(idx) |-> smooth[idx[i]]]))
        avg == Mean(sp)
        dur == Duration(fs, fe, f)
    IN  [match_id |-> mid,
         player_id |-> p,
         frame_start |-> fs,
         frame_end |-> fe,
         mid_frame |-> MidFrame(fs, fe),
         duration_s |-> dur,
         distance_m |-> DistanceFromAvg(avg, dur),
         avg_sprint_speed_kmh |-> avg,
         max_sprint_speed_kmh |-> Quantile(sp, QuantileQ)]

\* lines 84-126: one iteration of the loop over the sprint groups
ProcessRun ==
    /\ pc = "runs"
    /\ groups # << >>
    /\ LET idx  == GroupRows(is_sprinting, sprint_group, Head(groups))
           sp   == DropNaN(Force([i \in 1..Len(idx) |-> speed_smooth[idx[i]]]))
           kept == ~RunTooShort(idx) /\ ~TooFewSpeeds(sp)
           c    == RunStats(pdf, speed_smooth, idx, match_id, fps, pdf[1].player_id)
       IN  /\ candidates' = IF kept THEN Append(candidates, c) ELSE candidates
           /\ sprints_list' =
                IF kept /\ PassesValidation(c.avg_sprint_speed_kmh,
                                            c.max_sprint_speed_kmh, c.distance_m)
                THEN Append(sprints_list, c)
                ELSE sprints_list
    /\ groups' = Tail(groups)
    /\ UNCHANGED <<inputVars, player_frames, players, pdf, series_index,
                   teleport_mask, distances, speeds_kmh, speeds_smooth,
                   speed_smooth, is_sprinting, sprint_group, sprints_df,
                   enrichVars, pc>>

\* the loop of line 84 is exhausted: back to the loop of line 43
EndPlayer ==
    /\ pc = "runs"
    /\ groups = << >>
    /\ pc' = "players"
    /\ UNCHANGED <<inputVars, player_frames, players, pdf, seriesVars,
                   candidates, sprints_list, sprints_df, enrichVars>>

\* sprints_df["sprint_id"] = range(len(sprints_df))
AssignIds(list) ==
    [k \in 1..Len(list) |->
        [match_id |-> list[k].match_id,
         player_id |-> list[k].player_id,
         frame_start |-> list[k].frame_start,
         frame_end |-> list[k].frame_end,
         mid_frame |-> list[k].mid_frame,
         duration_s |-> list[k].duration_s,
         distance_m |-> list[k].distance_m,
         avg_sprint_speed_kmh |-> list[k].avg_sprint_speed_kmh,
         max_sprint_speed_kmh |-> list[k].max_sprint_speed_kmh,
         sprint_id |-> k - 1]]

\* lines 128-132
Finish ==
    /\ pc = "players"
    /\ players = << >>
    /\ sprints_df' = AssignIds(sprints_list)
    /\ pc' = "done"
    /\ UNCHANGED <<inputVars, player_frames, players, pdf, seriesVars,
                   candidates, sprints_list, enrichVars>>

Next ==
    \/ Explode
    \/ NextPlayer
    \/ CalcDistances
    \/ RemoveTeleports
    \/ ConvertSpeeds
    \/ Smooth
    \/ DetectSprintFrames
    \/ ProcessRun
    \/ EndPlayer
    \/ Finish

Spec == Init /\ [][Next]_vars


(***************************************************************************)
(* Properties of detect_sprints.                                           *)
(***************************************************************************)
\* The series of the current player have been computed up to and including
\* the teleport scrub.
Scrubbed == pc \notin {"explode", "distances", "teleport"} /\ distances # << >>

SameRun(a, b) ==
    /\ a.match_id = b.match_id
    /\ a.player_id = b.player_id
    /\ a.frame_start = b.frame_start
    /\ a.frame_end = b.frame_end
    /\ a.mid_frame = b.mid_frame
    /\ a.duration_s = b.duration_s
    /\ a.distance_m = b.distance_m
    /\ a.avg_sprint_speed_kmh = b.avg_sprint_speed_kmh
    /\ a.max_sprint_speed_kmh = b.max_sprint_speed_kmh

AllThreeChecks(c) ==
    /\ RLe(Rat(49, 2), c.avg_sprint_speed_kmh)
    /\ RLe(c.avg_sprint_speed_kmh, RInt(29))
    /\ RLe(RInt(26), c.max_sprint_speed_kmh)
    /\ RLe(c.max_sprint_speed_kmh, RInt(33))
    /\ RLe(RInt(7), c.distance_m)

Flagged == pc \in {"runs", "players", "done"} /\ is_sprinting # << >>

\* C5: a frame is flagged is_sprinting if and only if its smoothed speed is
\* present and >= threshold_kmh (the threshold being positive); a frame with
\* a missing smoothed speed is not flagged and belongs to no sprint group.
C5_SprintingIffPresentAndAtLeastThreshold ==
    (Flagged /\ RGt(threshold_kmh, RInt(0))) =>
        \A k \in 1..Len(is_sprinting) :
            /\ is_sprinting[k] <=>
                  (~IsNaN(speed_smooth[k]) /\ RLe(threshold_kmh, speed_smooth[k]))
            /\ IsNaN(speed_smooth[k]) =>
                  /\ ~is_sprinting[k]
                  /\ \A g \in Range(SprintGroupKeys(is_sprinting, sprint_group)) :
                        sprint_group[k] # g

\* A sprinting frame followed by a frame whose smoothed speed is missing, and
\* a sprinting frame whose smoothed speed equals the threshold.
C5_Witness ==
    /\ Flagged
    /\ \E k \in 1..(Len(is_sprinting) - 1) :
          is_sprinting[k] /\ IsNaN(speed_smooth[k + 1]) /\ ~is_sprinting[k + 1]
    /\ \E k \in 1..Len(is_sprinting) :
          is_sprinting[k] /\ speed_smooth[k] = threshold_kmh

\* C6: for every returned sprint, mid_frame = floor((frame_start +
\* frame_end) / 2) and lies in [frame_start, frame_end]; duration_s =
\* (frame_end - frame_start + 1) / fps; distance_m * 3.6 = avg * duration_s.
C6_MidDurationDistance ==
    \A j \in 1..Len(sprints_df) :
        LET r == sprints_df[j]
        IN  /\ r.mid_frame = (r.frame_start + r.frame_end) \div 2
            /\ r.frame_start <= r.mid_frame
            /\ r.mid_frame <= r.frame_end
            /\ r.duration_s = Rat(r.frame_end - r.frame_start + 1, fps)
            /\ RMul(r.distance_m, Rat(36, 10))
                 = RMul(r.avg_sprint_speed_kmh, r.duration_s)

\* The sum of the raw per-frame distances between the samples of frames
\* fs+1 .. fe of the current player.
RawDistance(fs, fe) ==
    LET raw == calculate_distances(pdf)
    IN  RSum(DropNaN(SelectIdx(raw, {k \in 1..Len(pdf) :
                                        pdf[k].frame > fs /\ pdf[k].frame <= fe})))

\* A returned sprint whose frame_start + frame_end is odd and whose distance
\* is not the sum of the raw distances of its frames.
C6_Witness ==
    /\ pc = "done"
    /\ \E j \in 1..Len(sprints_df) :
          /\ (sprints_df[j].frame_start + sprints_df[j].frame_end) % 2 = 1
          /\ sprints_df[j].player_id = pdf[1].player_id
          /\ sprints_df[j].distance_m
               # RawDistance(sprints_df[j].frame_start, sprints_df[j].frame_end)

\* C7: the sprint_id values of a result with n rows are 0..n-1 in row order,
\* the rows are exactly the accepted sprints, and they are ordered by
\* ascending player_id and, within a player, ascending frame_start.
C7_SprintIdsSequentialInPlayerFrameOrder ==
    pc = "done" =>
        /\ Len(sprints_df) = Len(sprints_list)
        /\ \A k \in 1..Len(sprints_df) :
              /\ sprints_df[k].sprint_id = k - 1
              /\ SameRun(sprints_df[k], sprints_list[k])
              /\ AllThreeChecks(sprints_df[k])
        /\ \A k \in 1..(Len(sprints_df) - 1) :
              \/ sprints_df[k].player_id < sprints_df[k + 1].player_id
              \/ /\ sprints_df[k].player_id = sprints_df[k + 1].player_id
                 /\ sprints_df[k].frame_start < sprints_df[k + 1].frame_start

\* A result from a table whose rows come in descending frame order and whose
\* player lists come in descending player order: sprints of two players, two
\* of them of one player, the higher player id sprinting first.
C7_Witness ==
    /\ pc = "done"
    /\ Len(tracking_df) > 1
    /\ tracking_df[1].frame > tracking_df[2].frame
    /\ \E i \in 1..Len(tracking_df) :
          /\ Len(tracking_df[i].player_data) > 1
          /\ tracking_df[i].player_data[1].player_id
               > tracking_df[i].player_data[2].player_id
    /\ \E k \in 1..(Len(sprints_df) - 1) :
          /\ sprints_df[k].player_id < sprints_df[k + 1].player_id
          /\ sprints_df[k].frame_start > sprints_df[k + 1].frame_start
    /\ \E k \in 1..(Len(sprints_df) - 1) :
          sprints_df[k].player_id = sprints_df[k + 1].player_id


\* The sprints of the current player, once its runs have all been visited.
CurrentSprints ==
    SelectIdx(sprints_list, {j \in 1..Len(sprints_list) :
                                sprints_list[j].player_id = pdf[1].player_id})

\* The frame numbers of a track are consecutive.
NoFrameGap(rows) ==
    \A k \in 1..(Len(rows) - 1) : rows[k + 1].frame = rows[k].frame + 1

\* Sprint r of the current player is a maximal run of sprinting frames.
MaximalRunOfFrames(r) ==
    /\ \A f \in r.frame_start..r.frame_end :
          \E k \in 1..Len(pdf) :
              /\ pdf[k].frame = f
              /\ RLe(threshold_kmh, speed_smooth[k])
    /\ \A k \in 1..Len(pdf) :
          /\ (pdf[k].frame < r.frame_start
              /\ \A i \in 1..Len(pdf) :
                    pdf[i].frame < r.frame_start => pdf[i].frame <= pdf[k].frame)
                => ~RLe(threshold_kmh, speed_smooth[k])
          /\ (pdf[k].frame > r.frame_end
              /\ \A i \in 1..Len(pdf) :
                    pdf[i].frame > r.frame_end => pdf[i].frame >= pdf[k].frame)
                => ~RLe(threshold_kmh, speed_smooth[k])

\* C4: every returned sprint is a maximal run of consecutive frames: every
\* frame number in [frame_start, frame_end] is a sample of the player with a
\* smoothed speed >= the threshold, and the player's samples just before
\* frame_start and just after frame_end are not sprinting; also on a track
\* with gaps in its frame numbers.
C4_SprintIsMaximalRunOfFrames ==
    (pc = "players" /\ Len(pdf) >= smooth_window) =>
        \A j \in 1..Len(CurrentSprints) : MaximalRunOfFrames(CurrentSprints[j])


(***************************************************************************)
(* The segmentation step on its own (lines 74-126): the state after line   *)
(* 72 is drawn from synthetic smoothed curves, `lead` frames at 0, `hold`  *)
(* frames at one level, MaxLead frames at 0.                               *)
(***************************************************************************)
MaxLead == 3
MaxHold == 8

CurveLevels == {SPRINT_THRESHOLD_KMH, Rat(244, 10), RInt(27)}

Curve(lead, hold, level) ==
    Repeat(RInt(0), lead) \o Repeat(level, hold) \o Repeat(RInt(0), MaxLead)

InitSegment ==
    \E lead \in 0..MaxLead, hold \in 0..MaxHold, level \in CurveLevels :
        /\ speed_smooth = Curve(lead, hold, level)
        /\ pdf = Track(1, 0, Repeat(Still, lead + hold + MaxLead - 1), {}, 0, 0)
        /\ tracking_df = BuildTracking(<<pdf>>, TRUE, TRUE)
        /\ player_frames = pdf
        /\ match_id = "m1"
        /\ fps = TRACKING_FPS
        /\ threshold_kmh = SPRINT_THRESHOLD_KMH
        /\ players = << >>
        /\ series_index = << >>
        /\ teleport_mask = << >>
        /\ distances = << >>
        /\ speeds_kmh = << >>
        /\ speeds_smooth = << >>
        /\ is_sprinting = << >>
        /\ sprint_group = << >>
        /\ groups = << >>
        /\ NoLoad
        /\ FirstRun
        /\ config = DefaultConfig
        /\ NoSummary
        /\ NoWidget
        /\ candidates = << >>
        /\ sprints_list = << >>
        /\ sprints_df = << >>
        /\ phases_df = << >>
        /\ enrich_pos = 0
        /\ enriched_sprints = << >>
        /\ enriched_df = << >>
        /\ pc = "flag"

NextSegment ==
    \/ DetectSprintFrames
    \/ ProcessRun
    \/ EndPlayer
    \/ Finish

SpecSegment == InitSegment /\ [][NextSegment]_vars

\* speed_smooth is at the threshold on exactly h consecutive frames and at 0
\* on every other frame.
HeldAtThreshold(h) ==
    \E a \in 0..(Len(speed_smooth) - h) :
        \A k \in 1..Len(speed_smooth) :
            speed_smooth[k] = IF a < k /\ k <= a + h THEN Rat(49, 2) ELSE RInt(0)

\* C3: a smoothed curve held exactly at 24.5 km/h for exactly 6 consecutive
\* frames and at 0 elsewhere gives exactly one candidate, of duration 0.6 s
\* at 10 fps; the same curve held for 5 frames gives no candidate.
C3_ThresholdBoundary ==
    (pc = "done" /\ fps = 10) =>
        /\ HeldAtThreshold(6) =>
              /\ Len(candidates) = 1
              /\ candidates[1].duration_s = Rat(6, 10)
              /\ candidates[1].frame_end - candidates[1].frame_start + 1 = 6
        /\ HeldAtThreshold(5) => candidates = << >>

\* The six-frame curve, segmented.
C3_Witness ==
    /\ pc = "done"
    /\ HeldAtThreshold(6)
    /\ Len(candidates) = 1


(***************************************************************************)
(* enrich_sprints_with_phases.  A table row is a record; None is the       *)
(* string "None".                                                          *)
(***************************************************************************)
None == "None"

\* dict.update
Update(d, u) ==
    [k \in DOMAIN d \cup DOMAIN u |-> IF k \in DOMAIN u THEN u[k] ELSE d[k]]

\* phase.get(col, default) on a row of phases_df
PhaseGet(phase, col, default) ==
    IF col \in DOMAIN phase THEN phase[col] ELSE default

\* PhaseMatches on any overlap of the phase with the sprint's frames
PhaseMatches_Overlap(phase, sprint) ==
    /\ phase.match_id = sprint.match_id
    /\ phase.frame_start <= sprint.frame_end
    /\ phase.frame_end >= sprint.frame_start

\* the row filter of lines 158-162
PhaseMatches(phase, sprint) ==
    /\ phase.match_id = sprint.match_id
    /\ phase.frame_start <= sprint.mid_frame
    /\ phase.frame_end >= sprint.mid_frame

\* phase_match: the rows of phases_df that pass the filter, in table order
PhaseMatch(phases, sprint) ==
    SelectIdx(phases, {k \in 1..Len(phases) : PhaseMatches(phases[k], sprint)})

\* NoMatchFields with the outcome flags set
NoMatchFields_FlagsSet ==
    [team_in_possession_phase_type |-> None,
     team_out_of_possession_phase_type |-> None,
     team_in_possession_id |-> None,
     possession_lead_to_shot |-> TRUE,
     possession_lead_to_goal |-> TRUE,
     third_end |-> None,
     channel_end |-> None]

\* lines 167-175
NoMatchFields ==
    [team_in_possession_phase_type |-> None,
     team_out_of_possession_phase_type |-> None,
     team_in_possession_id |-> None,
     possession_lead_to_shot |-> FALSE,
     possession_lead_to_goal |-> FALSE,
     third_end |-> None,
     channel_end |-> None]

\* lines 179-187
PhaseFields(phase) ==
    [team_in_possession_phase_type |-> phase.team_in_possession_phase_type,
     team_out_of_possession_phase_type |-> phase.team_out_of_possession_phase_type,
     team_in_possession_id |-> phase.team_in_possession_id,
     possession_lead_to_shot |-> PhaseGet(phase, "team_possession_lead_to_shot", FALSE),
     possession_lead_to_goal |-> PhaseGet(phase, "team_possession_lead_to_goal", FALSE),
     third_end |-> PhaseGet(phase, "third_end", None),
     channel_end |-> PhaseGet(phase, "channel_end", None)]

\* PickPhase taking the first matching row in one run and the last in the next
PickPhase_ByRun(matches) == matches[IF run = 1 THEN 1 ELSE Len(matches)]

\* phase_match.iloc[0]
PickPhase(matches) == matches[1]

\* lines 154-187: the dict of one sprint
EnrichedRow(sprint, phases) ==
    LET phase_match == PhaseMatch(phases, sprint)
    IN  IF Len(phase_match) = 0 THEN Update(sprint, NoMatchFields)
        ELSE Update(sprint, PhaseFields(PickPhase(phase_match)))

\* high_value_phases without quick_break
high_value_phases_NoQuickBreak == {"create", "finish", "transition"}

\* line 194
high_value_phases == {"create", "finish", "quick_break", "transition"}

\* lines 196-198
WithHighValueFlag(row) ==
    Update(row, [is_high_value_phase |->
                    row.team_in_possession_phase_type \in high_value_phases])

\* lines 153-189: one iteration of the loop over the sprints
EnrichRow ==
    /\ pc = "enrich"
    /\ enrich_pos < Len(sprints_df)
    /\ enriched_sprints' =
          Append(enriched_sprints, EnrichedRow(sprints_df[enrich_pos + 1], phases_df))
    /\ enrich_pos' = enrich_pos + 1
    /\ UNCHANGED <<inputVars, player_frames, players, pdf, seriesVars, candidates,
                   sprints_list, sprints_df, phases_df, enriched_df, pc>>

\* lines 191-203: the table and its derived flag; pd.DataFrame([]) has no
\* column, so that reading team_in_possession_phase_type raises KeyError
EnrichFinish ==
    /\ pc = "enrich"
    /\ enrich_pos = Len(sprints_df)
    /\ enriched_df' = IF enriched_sprints = << >> THEN << >>
                      ELSE Force([k \in 1..Len(enriched_sprints) |->
                                    WithHighValueFlag(enriched_sprints[k])])
    /\ pc' = IF enriched_sprints = << >> THEN "KeyError" ELSE "enriched"
    /\ UNCHANGED <<inputVars, player_frames, players, pdf, seriesVars, candidates,
                   sprints_list, sprints_df, phases_df, enrich_pos,
                   enriched_sprints>>

(***************************************************************************)
(* Inputs of the phase join: a table of up to three sprints of match m1,   *)
(* at 27 km/h, and a phases table made of any of four intervals in any     *)
(* row order, with or without the optional columns.                        *)
(***************************************************************************)
SprintRow(p, fs, fe) ==
    RunStats(Track(p, fs, Repeat(Step075, fe - fs), {}, 0, 0),
             Repeat(RInt(27), fe - fs + 1),
             Force([k \in 1..(fe - fs + 1) |-> k]), "m1", TRACKING_FPS, p)

SprintPool == <<SprintRow(1, 10, 21), SprintRow(1, 30, 40), SprintRow(2, 60, 70)>>

SprintTables ==
    { AssignIds(SelectIdx(SprintPool, S)) : S \in SUBSET (1..3) }

Phase(m, fs, fe, ip, oop, team, shot, goal, third, channel) ==
    [match_id |-> m, frame_start |-> fs, frame_end |-> fe,
     team_in_possession_phase_type |-> ip,
     team_out_of_possession_phase_type |-> oop,
     team_in_possession_id |-> team,
     team_possession_lead_to_shot |-> shot,
     team_possession_lead_to_goal |-> goal,
     third_end |-> third, channel_end |-> channel]

\* 0..15 ends on the first sprint's mid_frame and 15..36 starts on it;
\* 36..50 overlaps the second sprint (30..40, mid_frame 35) without holding
\* its mid_frame; the interval of match m2 holds every mid_frame.
PhasePool ==
    <<Phase("m1", 0, 15, "build_up", "medium_block", "t1", FALSE, FALSE,
            "middle_third", "left"),
      Phase("m1", 15, 36, "create", "low_block", "t2", TRUE, FALSE,
            "attacking_third", "center"),
      Phase("m1", 36, 50, "finish", "defending_set_play", "t1", TRUE, TRUE,
            "attacking_third", "right"),
      Phase("m2", 0, 100, "transition", "high_block", "t3", FALSE, TRUE,
            "defensive_third", "wide_left")>>

\* the sequences without repetition over 1..4
RowOrders ==
    UNION { {o \in [1..n -> 1..4] : \A i, j \in 1..n : i # j => o[i] # o[j]}
            : n \in 0..4 }

RequiredColumns ==
    {"match_id", "frame_start", "frame_end", "team_in_possession_phase_type",
     "team_out_of_possession_phase_type", "team_in_possession_id"}

\* two more intervals of m1, holding the mid_frame (65) of the third sprint
BreakPool ==
    <<Phase("m1", 60, 70, "quick_break", "high_block", "t2", FALSE, FALSE,
            "middle_third", "wide_right"),
      Phase("m1", 62, 65, "transition", "medium_block", "t1", TRUE, FALSE,
            "defensive_third", "center")>>

PhaseTables ==
    { Force([k \in 1..Len(o) |-> PhasePool[o[k]]]) : o \in RowOrders }
    \cup
    { Force([k \in 1..Len(o) |-> [c \in RequiredColumns |-> PhasePool[o[k]][c]]])
        : o \in {<<1, 2>>, <<2, 1>>} }
    \cup
    { <<PhasePool[1], PhasePool[3]>> \o Force([k \in 1..Len(o) |-> BreakPool[o[k]]])
        : o \in {<<1>>, <<2>>, <<1, 2>>, <<2, 1>>} }

InitEnrich ==
    \E st \in SprintTables, pt \in PhaseTables :
        /\ sprints_df = st
        /\ phases_df = pt
        /\ tracking_df = << >>
        /\ match_id = "m1"
        /\ fps = TRACKING_FPS
        /\ threshold_kmh = SPRINT_THRESHOLD_KMH
        /\ player_frames = << >>
        /\ players = << >>
        /\ pdf = << >>
        /\ NoSeries
        /\ NoLoad
        /\ FirstRun
        /\ config = DefaultConfig
        /\ NoSummary
        /\ NoWidget
        /\ candidates = << >>
        /\ sprints_list = << >>
        /\ enrich_pos = 0
        /\ enriched_sprints = << >>
        /\ enriched_df = << >>
        /\ pc = "enrich"

NextEnrich ==
    \/ EnrichRow
    \/ EnrichFinish

SpecEnrich == InitEnrich /\ [][NextEnrich]_vars


(***************************************************************************)
(* Properties of the phase join.                                           *)
(***************************************************************************)
\* Phase interval ph holds the mid_frame of sprint sp, both ends inclusive.
Contains(ph, sp) ==
    /\ ph.match_id = sp.match_id
    /\ ph.frame_start <= sp.mid_frame
    /\ sp.mid_frame <= ph.frame_end

Containing(sp) == {k \in 1..Len(phases_df) : Contains(phases_df[k], sp)}

OptionalOr(ph, col, default) == IF col \in DOMAIN ph THEN ph[col] ELSE default

\* Row carries the fields of phase interval ph.
Carries(row, ph) ==
    /\ row.team_in_possession_phase_type = ph.team_in_possession_phase_type
    /\ row.team_out_of_possession_phase_type = ph.team_out_of_possession_phase_type
    /\ row.team_in_possession_id = ph.team_in_possession_id
    /\ row.possession_lead_to_shot = OptionalOr(ph, "team_possession_lead_to_shot", FALSE)
    /\ row.possession_lead_to_goal = OptionalOr(ph, "team_possession_lead_to_goal", FALSE)
    /\ row.third_end = OptionalOr(ph, "third_end", "None")
    /\ row.channel_end = OptionalOr(ph, "channel_end", "None")

\* Row carries the no-match defaults.
CarriesDefaults(row) ==
    /\ row.team_in_possession_phase_type = "None"
    /\ row.team_out_of_possession_phase_type = "None"
    /\ row.team_in_possession_id = "None"
    /\ row.possession_lead_to_shot = FALSE
    /\ row.possession_lead_to_goal = FALSE
    /\ row.third_end = "None"
    /\ row.channel_end = "None"

\* C8: when two or more phase intervals of the sprint's match hold its
\* mid_frame, the enriched sprint carries the fields of the one with the
\* lowest frame_start, whatever the row order of the phases table.
C8_TieBreakLowestFrameStart ==
    pc = "enriched" =>
        \A j \in 1..Len(enriched_df) :
            LET holds == Containing(sprints_df[j])
            IN  Cardinality(holds) >= 2 =>
                    \E k \in holds :
                        /\ \A o \in holds :
                              phases_df[k].frame_start <= phases_df[o].frame_start
                        /\ Carries(enriched_df[j], phases_df[k])

\* C9: an enriched sprint carries the fields of a phase interval of the
\* table only if that interval is of the sprint's match and holds its
\* mid_frame, both ends inclusive; and when some interval does, the sprint
\* carries the fields of one of them and not the no-match defaults.
C9_JoinByMidFrameContainment ==
    pc = "enriched" =>
        \A j \in 1..Len(enriched_df) :
            LET holds == Containing(sprints_df[j])
            IN  /\ \A k \in 1..Len(phases_df) :
                      Carries(enriched_df[j], phases_df[k]) => k \in holds
                /\ holds # {} =>
                      /\ \E k \in holds : Carries(enriched_df[j], phases_df[k])
                      /\ ~CarriesDefaults(enriched_df[j])

\* The sprint of frames 30..40 (mid_frame 35) joined against a table that has
\* the interval 15..36 holding its mid_frame, the interval 36..50 overlapping
\* it without holding its mid_frame, and an interval of another match; and
\* the sprint of mid_frame 15 joined to an interval that ends on frame 15.
C9_Witness ==
    /\ pc = "enriched"
    /\ \E j \in 1..Len(enriched_df) :
          /\ sprints_df[j].mid_frame = 35
          /\ enriched_df[j].team_in_possession_phase_type = "create"
          /\ \E k \in 1..Len(phases_df) :
                /\ phases_df[k].frame_start = 36
                /\ phases_df[k].frame_start <= sprints_df[j].frame_end
          /\ \E k \in 1..Len(phases_df) : phases_df[k].match_id # sprints_df[j].match_id
    /\ \E j \in 1..Len(enriched_df) :
          /\ sprints_df[j].mid_frame = 15
          /\ enriched_df[j].team_in_possession_phase_type = "build_up"
          /\ \E k \in 1..Len(phases_df) :
                phases_df[k].frame_end = 15 /\ Carries(enriched_df[j], phases_df[k])

\* C10: for a non-empty sprint table the result has one row per sprint, in
\* the same order, every sprint field unchanged; a sprint whose mid_frame
\* lies in no interval of its match is kept with the phase type, possession
\* team, third_end and channel_end null and both outcome flags false.
C10_EverySprintKeptOnce ==
    (pc = "enriched" /\ sprints_df # << >>) =>
        /\ Len(enriched_df) = Len(sprints_df)
        /\ \A j \in 1..Len(sprints_df) :
              /\ \A f \in DOMAIN sprints_df[j] :
                    /\ f \in DOMAIN enriched_df[j]
                    /\ enriched_df[j][f] = sprints_df[j][f]
              /\ Containing(sprints_df[j]) = {} => CarriesDefaults(enriched_df[j])

\* Three sprints enriched, one with no interval holding its mid_frame and one
\* joined to an interval.
C10_Witness ==
    /\ pc = "enriched"
    /\ Len(enriched_df) = 3
    /\ \E j \in 1..3 :
          Containing(sprints_df[j]) = {} /\ CarriesDefaults(enriched_df[j])
    /\ \E j \in 1..3 :
          Containing(sprints_df[j]) # {} /\ ~CarriesDefaults(enriched_df[j])


(***************************************************************************)
(* Properties of the derived flag of enrich_sprints_with_phases.           *)
(***************************************************************************)
\* C11: after enrich_sprints_with_phases, is_high_value_phase is true for a
\* sprint exactly when its joined team_in_possession_phase_type is one of
\* create, finish, quick_break, transition; it is false for every sprint
\* with no matching phase.
C11_HighValueIffPhaseTypeInSet ==
    pc = "enriched" =>
        \A j \in 1..Len(enriched_df) :
            /\ enriched_df[j].is_high_value_phase =
                  (enriched_df[j].team_in_possession_phase_type
                      \in {"create", "finish", "quick_break", "transition"})
            /\ Containing(sprints_df[j]) = {} => ~enriched_df[j].is_high_value_phase

\* Three enriched sprints: one joined to a build_up interval (flag false),
\* one with no interval (flag false), one joined to quick_break (flag true).
C11_Witness ==
    /\ pc = "enriched"
    /\ Len(enriched_df) = 3
    /\ \E j \in 1..3 :
          /\ enriched_df[j].team_in_possession_phase_type = "build_up"
          /\ ~enriched_df[j].is_high_value_phase
    /\ \E j \in 1..3 :
          /\ Containing(sprints_df[j]) = {}
          /\ ~enriched_df[j].is_high_value_phase
    /\ \E j \in 1..3 :
          /\ enriched_df[j].team_in_possession_phase_type = "quick_break"
          /\ enriched_df[j].is_high_value_phase

\* Sprints joined to transition, create and finish intervals are flagged.
C11_WitnessOtherTypes ==
    /\ pc = "enriched"
    /\ \E j \in 1..Len(enriched_df) :
          /\ enriched_df[j].team_in_possession_phase_type = "transition"
          /\ enriched_df[j].is_high_value_phase


(***************************************************************************)
(* add_sprint_context_flags, one action per statement.  Its argument is    *)
(* the table it changes in place: here an enriched sprint table, with or   *)
(* without the team_id column that the join with the player metadata adds. *)
(***************************************************************************)
\* enrich_sprints_with_phases as a function of its two tables
EnrichTable(sprints, phases) ==
    Force([k \in 1..Len(sprints) |-> WithHighValueFlag(EnrichedRow(sprints[k], phases))])

Teams == {"t1", "t2"}

\* the table after the join with the player metadata: team_id per player
WithTeamId(table, team) ==
    Force([k \in 1..Len(table) |->
            Update(table[k], [team_id |-> team[table[k].player_id]])])

FlagInputs ==
    LET tables == { EnrichTable(st, pt) :
                        st \in SprintTables \ {<< >>}, pt \in PhaseTables }
    IN  tables \cup { WithTeamId(t, team) : t \in tables, team \in [1..2 -> Teams] }

HasColumn(table, col) == \A k \in 1..Len(table) : col \in DOMAIN table[k]

\* IsAttacking true whenever any team is in possession
IsAttacking_AnyPossession(row) == row.team_in_possession_id # None

\* lines 211-213
IsAttacking(row) == row.team_id = row.team_in_possession_id

\* IsDefensive asking for a team in possession
IsDefensive_WithPossession(row) ==
    row.team_in_possession_id # None /\ ~row.is_attacking_sprint

\* line 214
IsDefensive(row) == ~row.is_attacking_sprint

\* lines 216-218
InAttackingThird(row) == row.third_end = "attacking_third"

InitFlags ==
    \E t \in FlagInputs :
        /\ sprints_df = t
        /\ phases_df = << >>
        /\ tracking_df = << >>
        /\ match_id = "m1"
        /\ fps = TRACKING_FPS
        /\ threshold_kmh = SPRINT_THRESHOLD_KMH
        /\ player_frames = << >>
        /\ players = << >>
        /\ pdf = << >>
        /\ NoSeries
        /\ NoLoad
        /\ FirstRun
        /\ config = DefaultConfig
        /\ NoSummary
        /\ NoWidget
        /\ candidates = << >>
        /\ sprints_list = << >>
        /\ enrich_pos = 0
        /\ enriched_sprints = << >>
        /\ enriched_df = << >>
        /\ pc = "flags"

flagFrame == <<inputVars, player_frames, players, pdf, seriesVars, candidates,
               sprints_list, enrichVars>>

\* lines 211-213: reading a missing team_id column raises KeyError before
\* anything is assigned
FlagAttacking ==
    /\ pc = "flags"
    /\ IF HasColumn(sprints_df, "team_id")
       THEN /\ sprints_df' = Force([k \in 1..Len(sprints_df) |->
                    Update(sprints_df[k],
                           [is_attacking_sprint |-> IsAttacking(sprints_df[k])])])
            /\ pc' = "flags_defensive"
       ELSE /\ sprints_df' = sprints_df
            /\ pc' = "KeyError"
    /\ UNCHANGED flagFrame

\* line 214
FlagDefensive ==
    /\ pc = "flags_defensive"
    /\ sprints_df' = Force([k \in 1..Len(sprints_df) |->
            Update(sprints_df[k],
                   [is_defensive_sprint |-> IsDefensive(sprints_df[k])])])
    /\ pc' = "flags_third"
    /\ UNCHANGED flagFrame

\* lines 216-220
FlagThird ==
    /\ pc = "flags_third"
    /\ sprints_df' = Force([k \in 1..Len(sprints_df) |->
            Update(sprints_df[k],
                   [in_attacking_third |-> InAttackingThird(sprints_df[k])])])
    /\ pc' = "flagged"
    /\ UNCHANGED flagFrame

NextFlags ==
    \/ FlagAttacking
    \/ FlagDefensive
    \/ FlagThird

SpecFlags == InitFlags /\ [][NextFlags]_vars

FlagColumns == {"is_attacking_sprint", "is_defensive_sprint", "in_attacking_third"}

\* C12: after add_sprint_context_flags, for every sprint row is_attacking_sprint
\* is true iff team_id equals team_in_possession_id, is_defensive_sprint is
\* its negation and in_attacking_third is true iff third_end is
\* attacking_third; on a table without team_id the function fails and no
\* flag column is added.
C12_ContextFlags ==
    /\ pc = "flagged" =>
          \A k \in 1..Len(sprints_df) :
              LET row == sprints_df[k]
              IN  /\ row.is_attacking_sprint = (row.team_id = row.team_in_possession_id)
                  /\ row.is_defensive_sprint = ~row.is_attacking_sprint
                  /\ row.in_attacking_third = (row.third_end = "attacking_third")
    /\ ~HasColumn(sprints_df, "team_id") =>
          /\ pc \in {"flags", "KeyError"}
          /\ \A k \in 1..Len(sprints_df) : DOMAIN sprints_df[k] \cap FlagColumns = {}
    /\ pc = "KeyError" => ~HasColumn(sprints_df, "team_id")

\* A flagged table of three sprints with an attacking sprint, a defensive
\* sprint of a player whose team exists but is out of possession, a sprint
\* with no phase (defensive), one ending in the attacking third and one not.
C12_Witness ==
    /\ pc = "flagged"
    /\ Len(sprints_df) = 3
    /\ \E k \in 1..3 : sprints_df[k].is_attacking_sprint
    /\ \E k \in 1..3 : /\ sprints_df[k].is_defensive_sprint
                       /\ sprints_df[k].team_in_possession_id \in Teams
    /\ \E k \in 1..3 : /\ sprints_df[k].is_defensive_sprint
                       /\ sprints_df[k].team_in_possession_id = None
    /\ \E k \in 1..3 : sprints_df[k].in_attacking_third
    /\ \E k \in 1..3 : ~sprints_df[k].in_attacking_third

\* add_sprint_context_flags has failed on a table without team_id.
C12_WitnessKeyError ==
    pc = "KeyError" /\ Len(sprints_df) = 3


(***************************************************************************)
(* loaders.load_all_matches, one action per iteration of its loop.  A file *)
(* is either loadable or not; a loaded file is named by its match and kind.*)
(***************************************************************************)
MaxMatches == 2

AllMatchIds == <<"m1", "m2", "m3">>

FileKinds == {"metadata", "tracking", "events", "phases"}

\* get_all_match_ids
MatchIdList == SubSeq(AllMatchIds, 1, MaxMatches)

\* load_match_metadata, load_tracking_data, load_dynamic_events, load_phases:
\* the loaded data, or FileNotFoundError
CanLoad(m, kind) == kind \in files[m]
Loaded(m, kind) == <<m, kind>>

\* lines 121-126: the dict of one match
MatchData(m) ==
    [metadata |-> Loaded(m, "metadata"),
     tracking |-> Loaded(m, "tracking"),
     events   |-> Loaded(m, "events"),
     phases   |-> Loaded(m, "phases")]

InitLoad ==
    \E f \in [Range(MatchIdList) -> SUBSET FileKinds] :
        /\ files = f
        /\ match_ids = MatchIdList
        /\ all_data = << >>
        /\ FirstRun
        /\ config = DefaultConfig
        /\ NoSummary
        /\ NoWidget
        /\ tracking_df = << >>
        /\ match_id = "m1"
        /\ fps = TRACKING_FPS
        /\ threshold_kmh = SPRINT_THRESHOLD_KMH
        /\ player_frames = << >>
        /\ players = << >>
        /\ pdf = << >>
        /\ NoSeries
        /\ candidates = << >>
        /\ sprints_list = << >>
        /\ sprints_df = << >>
        /\ phases_df = << >>
        /\ enrich_pos = 0
        /\ enriched_sprints = << >>
        /\ enriched_df = << >>
        /\ pc = "load"

loadFrame == <<tracking_df, match_id, fps, threshold_kmh, files, runVars, config,
               summaryVars, widgetVars,
               player_frames,
               players, pdf, seriesVars, candidates, sprints_list, sprints_df,
               enrichVars>>

\* lines 120-126: the four loads of the try block all succeed
LoadMatch ==
    /\ pc = "load"
    /\ match_ids # << >>
    /\ \A kind \in FileKinds : CanLoad(Head(match_ids), kind)
    /\ all_data' = Update(all_data, Head(match_ids) :> MatchData(Head(match_ids)))
    /\ match_ids' = Tail(match_ids)
    /\ pc' = "load"
    /\ UNCHANGED loadFrame

\* lines 127-129: one of the loads raised; the match gets no entry
SkipMatch ==
    /\ pc = "load"
    /\ match_ids # << >>
    /\ \E kind \in FileKinds : ~CanLoad(Head(match_ids), kind)
    /\ all_data' = all_data
    /\ match_ids' = Tail(match_ids)
    /\ pc' = "load"
    /\ UNCHANGED loadFrame

\* lines 131-132
LoadReturn ==
    /\ pc = "load"
    /\ match_ids = << >>
    /\ pc' = "loaded"
    /\ UNCHANGED <<loadFrame, match_ids, all_data>>

NextLoad ==
    \/ LoadMatch
    \/ SkipMatch
    \/ LoadReturn

SpecLoad == InitLoad /\ [][NextLoad]_vars

\* load_all_matches returns an entry exactly for the matches whose four
\* files all load.
LoadedIffAllFilesLoad ==
    pc = "loaded" =>
        \A m \in DOMAIN files :
            m \in DOMAIN all_data <=> files[m] = FileKinds

\* C13: when the phase-interval data of a match cannot be loaded while its
\* other files can, the match's tracking data is still in the loaded data,
\* so that its sprints can be detected and kept.
C13_PhaseLoadFailureKeepsTracking ==
    pc = "loaded" =>
        \A m \in DOMAIN files :
            files[m] = FileKinds \ {"phases"} =>
                /\ m \in DOMAIN all_data
                /\ all_data[m].tracking = Loaded(m, "tracking")


(***************************************************************************)
(* detect_sprints for one player as a function of the set of that player's *)
(* own samples, built from the same steps as the actions above.  The       *)
(* properties below compare what the loop over the exploded, sorted table  *)
(* returns with this function.                                             *)
(***************************************************************************)
\* The samples of player p in a tracking table, as a set.
Samples(df, p) ==
    UNION { { [frame |-> df[i].frame,
               x |-> df[i].player_data[k].x,
               y |-> df[i].player_data[k].y]
              : k \in {k \in 1..Len(df[i].player_data) :
                          df[i].player_data[k].player_id = p} }
            : i \in 1..Len(df) }

PlayerIds(df) ==
    UNION { {df[i].player_data[k].player_id : k \in 1..Len(df[i].player_data)}
            : i \in 1..Len(df) }

\* A set of samples with distinct frame numbers, in ascending frame order.
ByFrame(S) ==
    Force([k \in 1..Cardinality(S) |->
            CHOOSE r \in S : Cardinality({q \in S : q.frame < r.frame}) = k - 1])

\* The accepted sprints of the track `rows` of player p, without sprint_id.
PlayerSprints(rows, p, mid, f, thr) ==
    IF Len(rows) < smooth_window THEN << >>
    ELSE
    LET dist  == calculate_distances(rows)
        kmh   == Force([k \in 1..Len(dist) |->
                        ClipUpper(ToKmh(MaskTeleport(dist[k]), f))])
        sm    == TwoStageSmooth(kmh)
        fl    == Force([k \in 1..Len(sm) |-> IsSprinting(sm[k], thr)])
        grp   == SprintGroup(fl)
        keys  == SprintGroupKeys(fl, grp)
        runs  == Force([i \in 1..Len(keys) |-> GroupRows(fl, grp, keys[i])])
        stats == Force([i \in 1..Len(keys) |-> RunStats(rows, sm, runs[i], mid, f, p)])
        good  == {i \in 1..Len(keys) :
                    /\ ~RunTooShort(runs[i])
                    /\ ~TooFewSpeeds(DropNaN(Force([j \in 1..Len(runs[i]) |->
                                                        sm[runs[i][j]]])))
                    /\ PassesValidation(stats[i].avg_sprint_speed_kmh,
                                        stats[i].max_sprint_speed_kmh,
                                        stats[i].distance_m)}
    IN  SelectIdx(stats, good)

\* The set as a sequence in ascending order.
Ascending(S) ==
    Force([k \in 1..Cardinality(S) |->
            CHOOSE v \in S : Cardinality({w \in S : w < v}) = k - 1])

RECURSIVE Concat(_)
Concat(ss) == IF ss = << >> THEN << >> ELSE Head(ss) \o Concat(Tail(ss))

\* detect_sprints on the tracking table cut down to the players in `ids`.
SprintsOfPlayers(df, ids, mid, f, thr) ==
    LET order == Ascending(ids)
    IN  AssignIds(Concat(Force([k \in 1..Len(order) |->
            PlayerSprints(ByFrame(Samples(df, order[k])), order[k], mid, f, thr)])))

\* C14: a player whose track has fewer than 11 samples contributes no sprint
\* and stops nothing: its rows never enter the distance and smoothing steps,
\* and the result is the one of the same table without that player.
C14_ShortTrackContributesNothing ==
    LET short == {p \in PlayerIds(tracking_df) :
                      Cardinality(Samples(tracking_df, p)) < 11}
    IN  /\ \A k \in 1..Len(sprints_list) : sprints_list[k].player_id \notin short
        /\ \A k \in 1..Len(candidates) : candidates[k].player_id \notin short
        /\ pc \in {"distances", "teleport", "convert", "smooth", "flag", "runs"}
              => Len(pdf) >= 11
        /\ pc = "done" =>
              sprints_df = SprintsOfPlayers(tracking_df,
                                            PlayerIds(tracking_df) \ short,
                                            match_id, fps, threshold_kmh)

\* A finished run on a table with a player of 10 samples moving at sprint
\* speed and another player who has a sprint in the result.
C14_Witness ==
    /\ pc = "done"
    /\ \E p \in PlayerIds(tracking_df) :
          /\ Cardinality(Samples(tracking_df, p)) = 10
          /\ \E q \in PlayerIds(tracking_df) \ {p} :
                \E k \in 1..Len(sprints_df) : sprints_df[k].player_id = q


\* The returned sprints of player p, in order, without sprint_id.
ReturnedSprints(p) ==
    LET own == SelectIdx(sprints_df, {k \in 1..Len(sprints_df) :
                                          sprints_df[k].player_id = p})
    IN  Force([k \in 1..Len(own) |->
            [c \in DOMAIN own[k] \ {"sprint_id"} |-> own[k][c]]])

\* C15: the sprints returned for a player, sprint_id apart, are a function
\* of the set of that player's own samples: neither the other players'
\* samples nor the order of the frame rows and of the player lists enter.
C15_PerTrackIndependence ==
    pc = "done" =>
        /\ \A p \in PlayerIds(tracking_df) :
              ReturnedSprints(p) =
                  PlayerSprints(ByFrame(Samples(tracking_df, p)), p,
                                match_id, fps, threshold_kmh)
        /\ \A k \in 1..Len(sprints_df) :
              sprints_df[k].player_id \in PlayerIds(tracking_df)

\* A finished run on a table of three players, frame rows descending and
\* player lists reversed, where two players have sprints and one has two.
C15_Witness ==
    /\ pc = "done"
    /\ Cardinality(PlayerIds(tracking_df)) = 3
    /\ tracking_df[1].frame > tracking_df[2].frame
    /\ \E i \in 1..Len(tracking_df) :
          /\ Len(tracking_df[i].player_data) = 3
          /\ tracking_df[i].player_data[1].player_id = 3
    /\ Len(ReturnedSprints(1)) = 2
    /\ Len(ReturnedSprints(3)) = 1


(***************************************************************************)
(* The pipeline: detect_sprints, then enrich_sprints_with_phases on its    *)
(* result, run twice on the same tracking table, phase table and           *)
(* configuration.                                                          *)
(***************************************************************************)
\* Two players, each absent, short, with one sprint or with two.
PipelineInputs ==
    { [df  |-> BuildTracking(<<PlayerTrack(1, w[1]), PlayerTrack(2, w[2])>>, fa, pa),
       fps |-> TRACKING_FPS]
      : w \in [1..2 -> {"absent", "short", "one", "two"}],
        fa \in BOOLEAN, pa \in BOOLEAN }

\* an interval that overlaps the intervals 0..15 and 36..50 of the pool
OverlapPhase ==
    Phase("m1", 5, 40, "direct", "high_block", "t2", FALSE, FALSE,
          "middle_third", "center")

PipelinePhaseTables ==
    { << >>,
      <<PhasePool[1], PhasePool[2], PhasePool[3]>>,
      <<PhasePool[3], PhasePool[1], OverlapPhase, PhasePool[4]>> }

InitPipeline ==
    \E inp \in PipelineInputs, pt \in PipelinePhaseTables :
        /\ tracking_df = inp.df
        /\ match_id = "m1"
        /\ fps = inp.fps
        /\ threshold_kmh = SPRINT_THRESHOLD_KMH
        /\ phases_df = pt
        /\ player_frames = << >>
        /\ players = << >>
        /\ pdf = << >>
        /\ NoSeries
        /\ NoLoad
        /\ FirstRun
        /\ config = DefaultConfig
        /\ NoSummary
        /\ NoWidget
        /\ candidates = << >>
        /\ sprints_list = << >>
        /\ sprints_df = << >>
        /\ enrich_pos = 0
        /\ enriched_sprints = << >>
        /\ enriched_df = << >>
        /\ pc = "explode"

\* the result of detect_sprints is handed to enrich_sprints_with_phases
StartEnrich ==
    /\ pc = "done"
    /\ pc' = "enrich"
    /\ UNCHANGED <<inputVars, player_frames, players, pdf, seriesVars, candidates,
                   sprints_list, sprints_df, enrichVars>>

RunEnded == pc \in {"enriched", "KeyError"}

\* the second run starts from the same arguments
Rerun ==
    /\ RunEnded
    /\ run = 1
    /\ first_result' = [sprints |-> sprints_df, enriched |-> enriched_df,
                        outcome |-> pc]
    /\ run' = 2
    /\ player_frames' = << >>
    /\ players' = << >>
    /\ pdf' = << >>
    /\ series_index' = << >>
    /\ teleport_mask' = << >>
    /\ distances' = << >>
    /\ speeds_kmh' = << >>
    /\ speeds_smooth' = << >>
    /\ speed_smooth' = << >>
    /\ is_sprinting' = << >>
    /\ sprint_group' = << >>
    /\ groups' = << >>
    /\ candidates' = << >>
    /\ sprints_list' = << >>
    /\ sprints_df' = << >>
    /\ enrich_pos' = 0
    /\ enriched_sprints' = << >>
    /\ enriched_df' = << >>
    /\ pc' = "explode"
    /\ UNCHANGED <<tracking_df, match_id, fps, threshold_kmh, phases_df, loaderVars,
                   config, summaryVars, widgetVars>>

NextPipeline ==
    \/ Next
    \/ StartEnrich
    \/ EnrichRow
    \/ EnrichFinish
    \/ Rerun

SpecPipeline == InitPipeline /\ [][NextPipeline]_vars

ThresholdChoices == {SPRINT_THRESHOLD_KMH, RInt(20), RInt(26)}

ConfigChoices ==
    [max_physical_speed_kmh : {MAX_PHYSICAL_SPEED_KMH, RInt(30)},
     teleport_threshold_m : {TELEPORT_THRESHOLD_M, RInt(1), RInt(2)}]

\* One player running MaxRun steps of 0.75 m, 0.85 m, 1.0 m or 1.05 m.
ConfigInputs ==
    { [df  |-> BuildTracking(
                  <<Track(1, 0, ProfileSteps(0, MaxRun, kind, MaxPost, Still), {}, 0, 0)>>,
                  TRUE, TRUE),
       fps |-> f]
      : kind \in {Step075, Step085, Step100, Step105}, f \in FpsChoices }

InitConfig ==
    \E inp \in ConfigInputs, thr \in ThresholdChoices, cfg \in ConfigChoices :
        /\ tracking_df = inp.df
        /\ match_id = "m1"
        /\ fps = inp.fps
        /\ threshold_kmh = thr
        /\ config = cfg
        /\ NoSummary
        /\ NoWidget
        /\ phases_df = << >>
        /\ player_frames = << >>
        /\ players = << >>
        /\ pdf = << >>
        /\ NoSeries
        /\ NoLoad
        /\ run = 1
        /\ first_result = NoResult
        /\ candidates = << >>
        /\ sprints_list = << >>
        /\ sprints_df = << >>
        /\ enrich_pos = 0
        /\ enriched_sprints = << >>
        /\ enriched_df = << >>
        /\ pc = "explode"

SpecConfig == InitConfig /\ [][Next]_vars

\* The two keyword arguments are the values the body applies.
FpsAndThresholdApplied ==
    /\ (pc \notin {"explode", "distances", "teleport", "convert"} /\ speeds_kmh # << >>) =>
          \A k \in 1..Len(speeds_kmh) :
              speeds_kmh[k] = ClipUpper(ToKmh(distances[k], fps))
    /\ Flagged =>
          \A k \in 1..Len(is_sprinting) :
              is_sprinting[k] = (~IsNaN(speed_smooth[k]) /\ RGe(speed_smooth[k], threshold_kmh))

\* C17: the tuning values the caller set are the ones the pipeline applies:
\* a displacement is scrubbed exactly when it exceeds the caller's teleport
\* threshold, and a converted speed is clipped at the caller's maximum
\* physical speed.
C17_OverridesApplied ==
    Scrubbed =>
        LET raw == calculate_distances(pdf)
        IN  /\ \A k \in 1..Len(raw) :
                  teleport_mask[k] = RGt(raw[k], config.teleport_threshold_m)
            /\ speeds_kmh # << >> =>
                  \A k \in 1..Len(raw) :
                      ~IsNaN(distances[k]) =>
                          LET v == ToKmh(distances[k], fps)
                          IN  speeds_kmh[k] =
                                  IF RGt(v, config.max_physical_speed_kmh)
                                  THEN config.max_physical_speed_kmh ELSE v


(***************************************************************************)
(* Properties of calculate_distances inside detect_sprints.                *)
(***************************************************************************)
NoPosition(row) == IsNaN(row.x) \/ IsNaN(row.y)

\* d is the Euclidean distance between the positions of rows a and b.
IsDistance(d, a, b) ==
    LET dx == RSub(b.x, a.x)
        dy == RSub(b.y, a.y)
    IN  /\ ~IsNaN(d)
        /\ RGe(d, RInt(0))
        /\ RMul(d, d) = RAdd(RMul(dx, dx), RMul(dy, dy))

\* C18: the distance of a track's first frame is missing, and so is the one
\* of every frame whose own position or whose predecessor's position is
\* absent; every other distance is sqrt(dx^2 + dy^2) from the predecessor.
\* The missing distances are still missing after the conversion to km/h.
C18_DistanceMissingWhenEndpointMissing ==
    /\ pc = "teleport" =>
          \A k \in 1..Len(distances) :
              LET cur == pdf[series_index[k]]
              IN  IF k = 1 THEN IsNaN(distances[k])
                  ELSE LET prev == pdf[series_index[k - 1]]
                       IN  IF NoPosition(cur) \/ NoPosition(prev)
                           THEN IsNaN(distances[k])
                           ELSE IsDistance(distances[k], prev, cur)
    /\ (pc \in {"smooth", "flag", "runs"} /\ speeds_kmh # << >>) =>
          \A k \in 1..Len(speeds_kmh) :
              (k = 1 \/ NoPosition(pdf[series_index[k]])
                     \/ NoPosition(pdf[series_index[Max2(k - 1, 1)]]))
                  => IsNaN(speeds_kmh[k])

\* The distances of a track with a sample without position between two
\* samples 1.5 m apart: missing into and out of that sample, while the
\* distances of the other frames are present.
C18_Witness ==
    /\ pc = "teleport"
    /\ \E k \in 2..(Len(pdf) - 1) :
          /\ NoPosition(pdf[k])
          /\ ~NoPosition(pdf[k - 1]) /\ ~NoPosition(pdf[k + 1])
          /\ IsDistance(Rat(3, 2), pdf[k - 1], pdf[k + 1])
          /\ IsNaN(distances[k]) /\ IsNaN(distances[k + 1])
          /\ \E j \in 2..Len(pdf) : distances[j] = Rat(3, 4)


(***************************************************************************)
(* Missing values through the stages of detect_sprints.  The smoothing is  *)
(* stated here over the set of the present values of each window.          *)
(***************************************************************************)
\* The positions of the centred window of w around k whose value is present.
PresentAround(s, k, w) ==
    {j \in 1..Len(s) : /\ j >= k - (w - 1) \div 2
                       /\ j <= k + (w - 1) \div 2
                       /\ ~IsNaN(s[j])}

\* The value of rank r (from 0) among the values of s at the positions J.
RankValue(s, J, r) ==
    s[CHOOSE j \in J : /\ Cardinality({i \in J : RLt(s[i], s[j])}) <= r
                       /\ Cardinality({i \in J : RLe(s[i], s[j])}) > r]

MedianOfPresent(s, J) ==
    IF J = {} THEN NaN
    ELSE RDiv(RAdd(RankValue(s, J, (Cardinality(J) - 1) \div 2),
                   RankValue(s, J, Cardinality(J) \div 2)), RInt(2))

MeanOfPresent(s, J) ==
    IF J = {} THEN NaN
    ELSE RDiv(RSum(SelectIdx(s, J)), RInt(Cardinality(J)))

SmoothOfPresent(s) ==
    LET med == Force([k \in 1..Len(s) |-> MedianOfPresent(s, PresentAround(s, k, 11))])
    IN  Force([k \in 1..Len(s) |-> MeanOfPresent(med, PresentAround(med, k, 7))])

ZeroFilled(s) == Force([k \in 1..Len(s) |-> IF IsNaN(s[k]) THEN RInt(0) ELSE s[k]])

\* C19: a missing distance stays missing through the teleport scrub, the
\* conversion and the cap; the rolling median and the rolling mean are taken
\* over the present values of each window only, and are missing when the
\* window has none; the average and maximum speed of a run are taken over
\* its present smoothed speeds.  No missing value is read as 0.
C19_MissingNeverZero ==
    /\ (pc \in {"smooth", "flag", "runs"} /\ speeds_kmh # << >>) =>
          LET raw == calculate_distances(pdf)
          IN  \A k \in 1..Len(raw) :
                  /\ IsNaN(raw[k]) => IsNaN(distances[k])
                  /\ IsNaN(speeds_kmh[k]) = IsNaN(distances[k])
    /\ pc = "flag" =>
          /\ speeds_smooth = SmoothOfPresent(speeds_kmh)
          /\ \A k \in 1..Len(speed_smooth) :
                speed_smooth[k] = speeds_smooth[CHOOSE j \in 1..Len(series_index) :
                                                    series_index[j] = k]
    /\ (pc = "runs" /\ pdf # << >>) =>
          \A i \in 1..Len(candidates) :
              candidates[i].player_id = pdf[1].player_id =>
                  LET c == candidates[i]
                      J == {k \in 1..Len(pdf) :
                              /\ pdf[k].frame >= c.frame_start
                              /\ pdf[k].frame <= c.frame_end
                              /\ ~IsNaN(speed_smooth[k])}
                  IN  /\ c.avg_sprint_speed_kmh = MeanOfPresent(speed_smooth, J)
                      /\ RGe(c.max_sprint_speed_kmh, RankValue(speed_smooth, J, 0))
                      /\ RLe(c.max_sprint_speed_kmh,
                             RankValue(speed_smooth, J, Cardinality(J) - 1))

\* Smoothed speeds of a track with missing speeds beyond the first frame,
\* where reading the missing speeds as 0 would have given another curve.
C19_Witness ==
    /\ pc = "flag"
    /\ \E k \in 2..Len(speeds_kmh) : IsNaN(speeds_kmh[k])
    /\ \E k \in 1..Len(speeds_kmh) : ~IsNaN(speeds_smooth[k])
    /\ speeds_smooth # TwoStageSmooth(ZeroFilled(speeds_kmh))

\* Smoothed speeds that are themselves missing: windows with no present value.
C19_WitnessAllMissing ==
    /\ pc = "flag"
    /\ \E k \in 1..Len(speeds_smooth) : IsNaN(speeds_smooth[k])


(***************************************************************************)
(* calculate_distances called on the rows of one player in any row order.  *)
(***************************************************************************)
MaxSamples == 4

DistanceSteps == {Still, Step075, Step500}

\* the orderings of 1..n
RowPermutations(n) == {o \in [1..n -> 1..n] : \A i, j \in 1..n : i # j => o[i] # o[j]}

\* Tracks of MaxSamples samples, with or without a sample without position
\* and with or without frames missing after the second sample.
DistanceTracks ==
    { Track(1, 0, st, miss, gapAt, GapLen)
      : st \in [1..(MaxSamples - 1) -> DistanceSteps],
        miss \in {{}, {2}}, gapAt \in {0, 2} }

InitDistances ==
    \E t \in DistanceTracks, o \in RowPermutations(MaxSamples) :
        /\ pdf = Force([k \in 1..MaxSamples |-> t[o[k]]])
        /\ tracking_df = << >>
        /\ match_id = "m1"
        /\ fps = TRACKING_FPS
        /\ threshold_kmh = SPRINT_THRESHOLD_KMH
        /\ config = DefaultConfig
        /\ NoSummary
        /\ NoWidget
        /\ phases_df = << >>
        /\ player_frames = << >>
        /\ players = << >>
        /\ NoSeries
        /\ NoLoad
        /\ FirstRun
        /\ candidates = << >>
        /\ sprints_list = << >>
        /\ sprints_df = << >>
        /\ enrich_pos = 0
        /\ enriched_sprints = << >>
        /\ enriched_df = << >>
        /\ pc = "distances"

\* only the call of line 49 is taken; the steps after it are not
NextDistances == CalcDistances

SpecDistances == InitDistances /\ [][NextDistances]_vars

\* The distance calculate_distances returns for the row of label k.
DistanceOfRow(k) ==
    distances[CHOOSE j \in 1..Len(series_index) : series_index[j] = k]

\* C20: for the rows of one player with distinct frame numbers, in any row
\* order, the distance returned for a row is the displacement from the row
\* with the next lower frame number: missing when there is none or when one
\* of the two positions is missing.
C20_DistancesIgnoreRowOrder ==
    pc = "teleport" =>
        /\ Len(distances) = Len(pdf)
        /\ \A k \in 1..Len(pdf) :
              LET lower == {j \in 1..Len(pdf) : pdf[j].frame < pdf[k].frame}
              IN  IF lower = {} THEN IsNaN(DistanceOfRow(k))
                  ELSE LET prev == CHOOSE j \in lower :
                                      \A i \in lower : pdf[i].frame <= pdf[j].frame
                       IN  IF NoPosition(pdf[k]) \/ NoPosition(pdf[prev])
                           THEN IsNaN(DistanceOfRow(k))
                           ELSE IsDistance(DistanceOfRow(k), pdf[prev], pdf[k])

\* Distances computed for rows given in descending frame order, the row of
\* the lowest frame last, with a 0.75 m step between two of them.
C20_Witness ==
    /\ pc = "teleport"
    /\ Len(pdf) = MaxSamples
    /\ \A k \in 1..(Len(pdf) - 1) : pdf[k].frame > pdf[k + 1].frame
    /\ IsNaN(DistanceOfRow(Len(pdf)))
    /\ \E k \in 1..(Len(pdf) - 1) : DistanceOfRow(k) = Rat(3, 4)


(***************************************************************************)
(* The two smoothing stages, sample by sample.                             *)
(***************************************************************************)
\* The samples of a series of n samples that exist within h samples of i.
Near(n, i, h) == {j \in 1..n : j >= i - h /\ j <= i + h}

Present(s, J) == {j \in J : ~IsNaN(s[j])}

\* C21: stage 1 at sample i is the median of the present capped speeds at
\* the samples i-5..i+5 that exist, and the smoothed speed at i is the mean
\* of the present stage-1 values at the samples i-3..i+3 that exist.  Every
\* sample of the track, the edge samples included, gets a smoothed value,
\* which is missing exactly when no capped speed is present within 8 samples
\* of i.
C21_TwoStageShrinkingWindows ==
    pc = "flag" =>
        LET n      == Len(speeds_kmh)
            h1     == (smooth_window - 1) \div 2
            h2     == (mean_window - 1) \div 2
            stage1 == Force([i \in 1..n |->
                          MedianOfPresent(speeds_kmh,
                                          Present(speeds_kmh, Near(n, i, h1)))])
        IN  /\ n = Len(pdf)
            /\ Len(speeds_smooth) = n
            /\ Len(speed_smooth) = n
            /\ \A i \in 1..n :
                  /\ speeds_smooth[i] =
                        MeanOfPresent(stage1, Present(stage1, Near(n, i, h2)))
                  /\ IsNaN(speeds_smooth[i]) <=>
                        Present(speeds_kmh, Near(n, i, h1 + h2)) = {}

\* A track whose first sample has a smoothed speed drawn from a window cut
\* short by the edge, and another sample whose smoothed speed is missing
\* next to one that is present: the 8-sample reach is exact there.
C21_Witness ==
    /\ pc = "flag"
    /\ Len(speeds_smooth) > smooth_window
    /\ \E i \in 1..(Len(speeds_smooth) - 1) :
          /\ IsNaN(speeds_smooth[i]) # IsNaN(speeds_smooth[i + 1])
          /\ \E j \in 1..Len(speeds_kmh) :
                /\ ~IsNaN(speeds_kmh[j])
                /\ (j - i = 9 \/ i + 1 - j = 9)

\* Every smoothed speed of the track present, the first and the last too.
C21_WitnessEdges ==
    /\ pc = "flag"
    /\ Len(speeds_smooth) >= smooth_window
    /\ ~IsNaN(speeds_smooth[1])
    /\ ~IsNaN(speeds_smooth[Len(speeds_smooth)])
    /\ speeds_smooth[1] # speeds_smooth[(smooth_window + 1) \div 2]


(***************************************************************************)
(* eda.get_player_summary.  Rows carry the is_detected column here.        *)
(***************************************************************************)
METERS_TO_KM == 1000
SECONDS_TO_HOURS == 3600
SpeedCeiling == RInt(40)
MaxWindow == 3
MaxQuantile == Rat(99, 100)

\* eda.calculate_speeds: distances / (1.0 / fps) * (3600 / 1000)
calculate_speeds(rows, f) ==
    LET d          == calculate_distances(rows)
        time_delta == RDiv(RInt(1), RInt(f))
    IN  Force([k \in 1..Len(d) |->
            RMul(RDiv(d[k], time_delta), Rat(SECONDS_TO_HOURS, METERS_TO_KM))])

\* speeds[(speeds > 0) & (speeds < 40)]
ValidSpeeds(sp) ==
    SelectIdx(sp, {k \in 1..Len(sp) : RGt(sp[k], RInt(0)) /\ RLt(sp[k], SpeedCeiling)})

\* eda.clean_max_speed_kmh with its default window, cap and quantile
clean_max_speed_kmh(sp) ==
    LET valid == ValidSpeeds(DropNaN(sp))
    IN  IF Len(valid) = 0 THEN RInt(0)
        ELSE Quantile(RollingMedian(valid, MaxWindow), MaxQuantile)

\* the dict of lines 103-110
EmptySummary(p) ==
    [player_id |-> p, distance_km |-> RInt(0), avg_speed_kmh |-> RInt(0),
     max_speed_kmh |-> RInt(0), frames_tracked |-> 0, minutes_played |-> RInt(0)]

\* lines 119-123
MinutesPlayed(rows, p, lookup, f) ==
    IF p \in DOMAIN lookup THEN lookup[p]
    ELSE Rat(Cardinality({k \in 1..Len(rows) : rows[k].is_detected}), f * 60)

\* lines 112, 125-137
PlayerSummary(rows, p, lookup, f, valid) ==
    LET total   == RDiv(RSum(DropNaN(calculate_distances(rows))), RInt(METERS_TO_KM))
        minutes == MinutesPlayed(rows, p, lookup, f)
        hours   == RDiv(minutes, RInt(60))
    IN  [player_id |-> p,
         distance_km |-> total,
         avg_speed_kmh |-> IF RGt(hours, RInt(0)) THEN RDiv(total, hours) ELSE RInt(0),
         max_speed_kmh |-> clean_max_speed_kmh(valid),
         frames_tracked |-> Len(rows),
         minutes_played |-> minutes]

\* what the detection, the phase join and the loader hold
pipelineVars == <<tracking_df, match_id, fps, threshold_kmh, loaderVars,
                  runVars, config, player_frames, players, pdf, seriesVars,
                  candidates, sprints_list, sprints_df, enrichVars>>

\* no step of get_player_summary touches it
detectionVars == <<pipelineVars, widgetVars>>

\* lines 100-110: the rows of the player; no row, the zero summary
SummaryRows ==
    /\ pc = "summary"
    /\ player_data' = PlayerRows(player_tracking, player_id)
    /\ IF Len(player_data') = 0
       THEN /\ summary' = EmptySummary(player_id)
            /\ pc' = "summarised"
       ELSE /\ summary' = summary
            /\ pc' = "summary_speeds"
    /\ UNCHANGED <<detectionVars, player_tracking, player_id,
                   minutes_played_lookup, valid_speeds>>

\* lines 112-116: calculate_speeds is called without fps, so with its default
SummarySpeeds ==
    /\ pc = "summary_speeds"
    /\ valid_speeds' = ValidSpeeds(calculate_speeds(player_data, TRACKING_FPS))
    /\ pc' = "summary_return"
    /\ UNCHANGED <<detectionVars, player_tracking, player_id,
                   minutes_played_lookup, player_data, summary>>

\* lines 118-137
SummaryReturn ==
    /\ pc = "summary_return"
    /\ summary' = PlayerSummary(player_data, player_id, minutes_played_lookup,
                                fps, valid_speeds)
    /\ pc' = "summarised"
    /\ UNCHANGED <<detectionVars, player_tracking, player_id,
                   minutes_played_lookup, player_data, valid_speeds>>

MaxSummarySteps == 3

SummarySteps == {Still, Step0375, Step500}

\* the exploded rows with their is_detected column: FALSE for player 1 at
\* the frames of `undetected`, TRUE elsewhere
WithDetected(rows, undetected) ==
    Force([k \in 1..Len(rows) |->
        [frame |-> rows[k].frame, player_id |-> rows[k].player_id,
         x |-> rows[k].x, y |-> rows[k].y,
         is_detected |-> ~(rows[k].player_id = 1 /\ rows[k].frame \in undetected)]])

\* Player 1 with up to MaxSummarySteps steps, player 2 walking beside;
\* minutes_played_lookup None (the empty function) or with player 1's
\* official minutes.
SummaryInputs ==
    { [rows   |-> WithDetected(
                    SortPlayerFrames(explode_player_tracking(BuildTracking(
                        <<Track(1, 0, st, {}, 0, 0),
                          Track(2, 0, Repeat(Step0375, 2), {}, 0, 0)>>,
                        TRUE, TRUE))),
                    und),
       lookup |-> lk,
       fps    |-> f]
      : st \in UNION {[1..n -> SummarySteps] : n \in 1..MaxSummarySteps},
        und \in {{}, {1}}, lk \in {<< >>, <<RInt(90)>>}, f \in FpsChoices }

InitSummary ==
    \E inp \in SummaryInputs, p \in {1, 3} :
        /\ player_tracking = inp.rows
        /\ player_id = p
        /\ minutes_played_lookup = inp.lookup
        /\ player_data = << >>
        /\ valid_speeds = << >>
        /\ summary = << >>
        /\ NoWidget
        /\ fps = inp.fps
        /\ tracking_df = << >>
        /\ match_id = "m1"
        /\ threshold_kmh = SPRINT_THRESHOLD_KMH
        /\ config = DefaultConfig
        /\ phases_df = << >>
        /\ player_frames = << >>
        /\ players = << >>
        /\ pdf = << >>
        /\ NoSeries
        /\ NoLoad
        /\ FirstRun
        /\ candidates = << >>
        /\ sprints_list = << >>
        /\ sprints_df = << >>
        /\ enrich_pos = 0
        /\ enriched_sprints = << >>
        /\ enriched_df = << >>
        /\ pc = "summary"

NextSummary ==
    \/ SummaryRows
    \/ SummarySpeeds
    \/ SummaryReturn

SpecSummary == InitSummary /\ [][NextSummary]_vars

\* What the summary does hold: max_speed_kmh is drawn from the speeds at
\* TRACKING_FPS, whatever fps the caller gave, and minutes_played from fps.
MaxSpeedAtDefaultFps ==
    (pc = "summarised" /\ player_data # << >>) =>
        /\ summary.max_speed_kmh =
              clean_max_speed_kmh(ValidSpeeds(calculate_speeds(player_data, TRACKING_FPS)))
        /\ summary.minutes_played =
              MinutesPlayed(player_data, player_id, minutes_played_lookup, fps)

\* C22: get_player_summary uses the fps it is given for every quantity that
\* depends on it: max_speed_kmh is drawn from the speeds distance * fps * 3.6
\* at the caller's fps, the fps that also turns the detected frames into
\* minutes_played.
C22_SummaryUsesGivenFps ==
    (pc = "summarised" /\ player_data # << >>) =>
        /\ summary.max_speed_kmh =
              clean_max_speed_kmh(ValidSpeeds(calculate_speeds(player_data, fps)))
        /\ player_id \notin DOMAIN minutes_played_lookup =>
              summary.minutes_played =
                  Rat(Cardinality({k \in 1..Len(player_data) :
                                      player_data[k].is_detected}), fps * 60)


(***************************************************************************)
(* The sprints of one player within one result.                            *)
(***************************************************************************)
\* The positions of list, in list order, that hold a sprint of player p.
SprintsOf(list, p) == {i \in 1..Len(list) : list[i].player_id = p}

\* C23: in one result, the frame ranges of two sprints of the same player
\* are disjoint, the earlier one ends before a sample of that player that is
\* not sprinting and the later one starts after it, and the player's sprints
\* stand in strictly ascending frame_start order.
C23_SprintsDisjointAndAscending ==
    /\ (pc = "runs" /\ pdf # << >>) =>
          \A i, j \in SprintsOf(sprints_list, pdf[1].player_id) :
              i < j =>
                  \E k \in 1..Len(pdf) :
                      /\ ~is_sprinting[k]
                      /\ sprints_list[i].frame_end < pdf[k].frame
                      /\ pdf[k].frame < sprints_list[j].frame_start
    /\ pc = "done" =>
          \A i, j \in 1..Len(sprints_df) :
              (i < j /\ sprints_df[i].player_id = sprints_df[j].player_id) =>
                  /\ sprints_df[i].frame_start <= sprints_df[i].frame_end
                  /\ sprints_df[i].frame_end < sprints_df[j].frame_start
                  /\ sprints_df[j].frame_start <= sprints_df[j].frame_end

\* A result with two sprints of one player, and sprints of another player.
C23_Witness ==
    /\ pc = "done"
    /\ \E i, j \in 1..Len(sprints_df) :
          /\ i < j
          /\ sprints_df[i].player_id = sprints_df[j].player_id
          /\ \E k \in 1..Len(sprints_df) :
                sprints_df[k].player_id # sprints_df[i].player_id


(***************************************************************************)
(* The range of the smoothed speeds.                                       *)
(***************************************************************************)
InSpeedRange(v, lo, hi) == RGe(v, lo) /\ RLe(v, hi)

SpeedsOf(idx) == Force([i \in 1..Len(idx) |-> speed_smooth[idx[i]]])

\* C25: with a positive threshold, every sample of a run of sprinting rows
\* has a smoothed speed that is present and at least the threshold; a run
\* that passes the 6-sample minimum therefore has at least 6 present smoothed
\* speeds and is never discarded for having fewer than 4, and the average
\* speed of every candidate is at least the threshold.
C25_RunsHaveNoMissingSpeeds ==
    (pc = "runs" /\ RGt(threshold_kmh, RInt(0))) =>
        /\ \A g \in Range(SprintGroupKeys(is_sprinting, sprint_group)) :
              LET idx == GroupRows(is_sprinting, sprint_group, g)
                  sp  == DropNaN(SpeedsOf(idx))
              IN  /\ \A i \in 1..Len(idx) :
                        /\ ~IsNaN(speed_smooth[idx[i]])
                        /\ RGe(speed_smooth[idx[i]], threshold_kmh)
                  /\ Len(sp) = Len(idx)
                  /\ ~RunTooShort(idx) => (Len(sp) >= MinRunLen /\ ~TooFewSpeeds(sp))
        /\ \A i \in 1..Len(candidates) :
              RGe(candidates[i].avg_sprint_speed_kmh, threshold_kmh)

\* A track with missing smoothed speeds and a candidate among its runs.
C25_Witness ==
    /\ pc = "runs"
    /\ \E k \in 1..Len(speed_smooth) : IsNaN(speed_smooth[k])
    /\ candidates # << >>
    /\ candidates[Len(candidates)].player_id = pdf[1].player_id

\* A run of exactly 6 sprinting rows that became a candidate.
C25_WitnessMinimumRun ==
    /\ pc = "runs"
    /\ \E g \in Range(SprintGroupKeys(is_sprinting, sprint_group)) :
          LET idx == GroupRows(is_sprinting, sprint_group, g)
          IN  /\ Len(idx) = MinRunLen
              /\ \E i \in 1..Len(candidates) :
                    candidates[i].frame_start = pdf[idx[1]].frame


(***************************************************************************)
(* The shortest sprint the validator lets through.                         *)
(***************************************************************************)
FrameSpan(c) == c.frame_end - c.frame_start + 1

\* C26: at the default 10 fps every accepted sprint lasts at least 0.9 s, a
\* span of at least 9 frames: a run spanning 6, 7 or 8 frames whose average
\* speed is at most 29 km/h covers less than 7.0 m, so the validator rejects
\* every candidate of such a span.
C26_NoSprintShorterThanNineFrames ==
    fps = TRACKING_FPS =>
        /\ \A i \in 1..Len(sprints_list) :
              /\ RGe(sprints_list[i].duration_s, Rat(9, 10))
              /\ FrameSpan(sprints_list[i]) >= 9
        /\ \A i \in 1..Len(candidates) :
              LET c == candidates[i]
              IN  FrameSpan(c) \in MinRunLen..8 =>
                      /\ ~(AvgInRange(c.avg_sprint_speed_kmh)
                             /\ DistanceEnough(c.distance_m))
                      /\ \A j \in 1..Len(sprints_list) :
                            sprints_list[j].frame_start # c.frame_start
                              \/ sprints_list[j].player_id # c.player_id

\* A candidate at 10 fps spanning 6 to 8 frames whose speeds pass both speed
\* checks: the distance check alone keeps it out.
C26_Witness ==
    /\ fps = TRACKING_FPS
    /\ \E i \in 1..Len(candidates) :
          LET c == candidates[i]
          IN  /\ FrameSpan(c) \in MinRunLen..8
              /\ AvgInRange(c.avg_sprint_speed_kmh)
              /\ MaxInRange(c.max_sprint_speed_kmh)
              /\ ~DistanceEnough(c.distance_m)

\* An accepted sprint of 10 frames at 10 fps.
C26_WitnessShortSprint ==
    /\ fps = TRACKING_FPS
    /\ \E i \in 1..Len(sprints_list) : FrameSpan(sprints_list[i]) = 10


(***************************************************************************)
(* The phase join on the table of a run that accepted no sprint.           *)
(***************************************************************************)
\* What the join does with it: the table pd.DataFrame([]) of line 191 has no
\* column, and line 196 raises KeyError; with a sprint it returns.
EmptyTableRaisesKeyError ==
    RunEnded => (pc = "KeyError" <=> sprints_df = << >>)

\* C27: enrich_sprints_with_phases accepts the empty table detect_sprints
\* returns when it accepted no sprint: it completes without error and returns
\* an empty result, whatever the phases table.
C27_EmptySprintTableAccepted ==
    (RunEnded /\ sprints_df = << >>) =>
        /\ pc = "enriched"
        /\ enriched_df = << >>


(***************************************************************************)
(* Sprints without phase context, through add_sprint_context_flags and the *)
(* per-player shares of aggregate_player_sprints.                          *)
(***************************************************************************)
\* the rows of one group of groupBy(['match_id', 'player_id'])
PlayerMatchRows(table, m, p) ==
    {k \in 1..Len(table) : table[k].match_id = m /\ table[k].player_id = p}

\* F.mean(F.col(col).cast('int')) over the rows K
FlagShare(table, K, col) ==
    Rat(Cardinality({k \in K : table[k][col]}), Cardinality(K))

\* line 253
defensive_sprint_pct(table, m, p) ==
    FlagShare(table, PlayerMatchRows(table, m, p), "is_defensive_sprint")

\* line 252
attacking_sprint_pct(table, m, p) ==
    FlagShare(table, PlayerMatchRows(table, m, p), "is_attacking_sprint")

NoPhaseContext(row) == row.team_in_possession_id = None

\* C28: a sprint that matched no phase interval comes out of
\* add_sprint_context_flags with is_attacking_sprint false and
\* is_defensive_sprint true, whatever its team_id; each such sprint counts as
\* defensive in its player's defensive_sprint_pct, which is the share of the
\* player's sprints that have no phase context or whose team is out of
\* possession.
C28_NoPhaseSprintCountsAsDefensive ==
    pc = "flagged" =>
        /\ \A k \in 1..Len(sprints_df) :
              NoPhaseContext(sprints_df[k]) =>
                  /\ ~sprints_df[k].is_attacking_sprint
                  /\ sprints_df[k].is_defensive_sprint
        /\ \A k \in 1..Len(sprints_df) :
              LET m == sprints_df[k].match_id
                  p == sprints_df[k].player_id
                  K == PlayerMatchRows(sprints_df, m, p)
              IN  /\ defensive_sprint_pct(sprints_df, m, p) =
                        Rat(Cardinality({j \in K :
                                \/ NoPhaseContext(sprints_df[j])
                                \/ sprints_df[j].team_id #
                                       sprints_df[j].team_in_possession_id}),
                            Cardinality(K))
                  /\ attacking_sprint_pct(sprints_df, m, p) =
                        RSub(RInt(1), defensive_sprint_pct(sprints_df, m, p))

\* A player of either team with two sprints, one without phase context and
\* one in possession: half of the player's sprints count as defensive.
C28_Witness ==
    /\ pc = "flagged"
    /\ \E k, j \in 1..Len(sprints_df) :
          /\ sprints_df[k].player_id = sprints_df[j].player_id
          /\ NoPhaseContext(sprints_df[k])
          /\ sprints_df[j].is_attacking_sprint
          /\ defensive_sprint_pct(sprints_df, "m1", sprints_df[k].player_id) = Rat(1, 2)
    /\ \E k, j \in 1..Len(sprints_df) :
          /\ NoPhaseContext(sprints_df[k]) /\ sprints_df[k].team_id = "t1"
          /\ NoPhaseContext(sprints_df[j]) /\ sprints_df[j].team_id = "t2"


(***************************************************************************)
(* visualisation.create_comparison_widget.  A control of the widget is a   *)
(* record of its value and, for a dropdown, its options; assigning a value *)
(* that differs from the present one calls the observer of the control at  *)
(* once, inside the assignment, and assigning the options of a dropdown    *)
(* selects its first option (None when there is none).  The callbacks that *)
(* are running form a stack of frames; every step is taken by the          *)
(* innermost frame.                                                        *)
(*                                                                         *)
(* The player table and the metric families are the caller's: three        *)
(* players of two position groups, and two families with their volume      *)
(* column and default minimum volume, within the range of the slider.      *)
(***************************************************************************)
AllPositions == "All position groups"

PlayerTable ==
    <<[player_short_name |-> "A", position_group |-> "DEF", minutes_played |-> 90,
       sprint_count |-> 5, pressure_count |-> 1],
      [player_short_name |-> "B", position_group |-> "MID", minutes_played |-> 60,
       sprint_count |-> 3, pressure_count |-> 4],
      [player_short_name |-> "C", position_group |-> "MID", minutes_played |-> 45,
       sprint_count |-> 1, pressure_count |-> 2]>>

metric_families ==
    [Sprints  |-> [volume_col |-> "sprint_count", min_volume_default |-> 3],
     Pressing |-> [volume_col |-> "pressure_count", min_volume_default |-> 2]]

\* sorted(...) of names and of position groups
NameOrder == <<"A", "B", "C">>
PositionOrder == <<"DEF", "MID">>

InOrder(order, S) == SelectIdx(order, {k \in 1..Len(order) : order[k] \in S})

\* get_eligible_players, as the set of the rows it keeps
get_eligible_players(metric_family, min_minutes, min_volume) ==
    {i \in 1..Len(PlayerTable) :
        /\ PlayerTable[i].minutes_played >= min_minutes
        /\ PlayerTable[i][metric_families[metric_family].volume_col] >= min_volume}

\* line 260
PositionsOf(eligible) ==
    <<AllPositions>> \o InOrder(PositionOrder,
                                {PlayerTable[i].position_group : i \in eligible})

\* lines 264-268
PlayersOf(eligible, position_filter) ==
    LET kept == IF /\ position_filter # AllPositions
                   /\ \E i \in eligible : PlayerTable[i].position_group = position_filter
                THEN {i \in eligible : PlayerTable[i].position_group = position_filter}
                ELSE eligible
    IN  InOrder(NameOrder, {PlayerTable[i].player_short_name : i \in kept})

\* the value a dropdown takes when its options are assigned
FirstOption(options) == IF Len(options) = 0 THEN None ELSE options[1]

\* lines 381-390: the callback that observes the value of each control
Observer ==
    [metric_dropdown |-> "update_filters", min_minutes_slider |-> "update_filters",
     min_volume_slider |-> "update_filters", position_dropdown |-> "update_filters",
     comparison_dropdown |-> "update_plot", cohort_dropdown |-> "update_plot",
     player1_dropdown |-> "update_plot", player2_dropdown |-> "update_plot"]

\* a frame of a callback entered through `via`: an observer or a direct call
Frame(fn, via) ==
    [fn |-> fn, via |-> via, at |-> "guard", metric_family |-> None, min_minutes |-> 0,
     position_filter |-> None, eligible |-> {}, players |-> << >>, raised |-> FALSE]

Top == stack[Len(stack)]

Below == SubSeq(stack, 1, Len(stack) - 1)

\* the innermost frame moves on to `at`
Goto(at) == Below \o <<[Top EXCEPT !.at = at]>>

\* control.value = v (or control.options = ...) by the innermost frame, which
\* moves on to `at`: the observer runs first if the value has changed
Assign(control, v, at) ==
    IF controls[control].value = v THEN Goto(at)
    ELSE Append(Goto(at), Frame(Observer[control], "observer"))

\* The log of one top-level event: the callback it called and the control
\* and value that caused it; the calls of update_plot made by a statement
\* (direct) and by an observer (observed), those that got past its guard
\* (passed) and those that went on to draw (drawn), whether one of them got
\* past the guard while update_filters was changing the player dropdowns or
\* during the setup of line 394, the calls of update_filters that found it
\* active, and the minimum volume read by line 257 and by line 305 (0: not
\* read).
NewLog(event, control, v) ==
    [event |-> event, control |-> control, value |-> v,
     direct |-> 0, observed |-> 0, passed |-> 0, drawn |-> 0, reentered |-> 0,
     drawn_guarded |-> FALSE, outcome |-> "running",
     eligible_volume |-> 0, plot_volume |-> 0]

MaxEvents == 2
MinuteChoices == {45, 60, 90}
VolumeChoices == {1, 2, 3, 5}
ComparisonChoices == {"Individual player", "Team average"}
CohortChoices == {"Same position_group", "All players"}

\* lines 189-237: the controls as constructed, the three flags
InitWidget ==
    \E min_minutes_default \in {60}, min_sprints_default \in {3, 5} :
        /\ controls =
              [metric_dropdown     |-> [value |-> "Sprints"],
               cohort_dropdown     |-> [value |-> "Same position_group"],
               position_dropdown   |-> [value |-> AllPositions, options |-> <<AllPositions>>],
               min_minutes_slider  |-> [value |-> min_minutes_default],
               min_volume_slider   |-> [value |-> min_sprints_default],
               comparison_dropdown |-> [value |-> "Individual player"],
               player1_dropdown    |-> [value |-> None, options |-> << >>],
               player2_dropdown    |-> [value |-> None, options |-> << >>]]
        /\ updating_filters = FALSE
        /\ suppress_plot = FALSE
        /\ initializing = TRUE
        /\ stack = << >>
        /\ main = "wire"
        /\ log = NewLog("setup", None, None)
        /\ events = 0
        /\ NoSummary
        /\ fps = TRACKING_FPS
        /\ tracking_df = << >>
        /\ match_id = "m1"
        /\ threshold_kmh = SPRINT_THRESHOLD_KMH
        /\ config = DefaultConfig
        /\ phases_df = << >>
        /\ player_frames = << >>
        /\ players = << >>
        /\ pdf = << >>
        /\ NoSeries
        /\ NoLoad
        /\ FirstRun
        /\ candidates = << >>
        /\ sprints_list = << >>
        /\ sprints_df = << >>
        /\ enrich_pos = 0
        /\ enriched_sprints = << >>
        /\ enriched_df = << >>
        /\ pc = "widget"

\* what no step of the widget touches
widgetFrame == <<pipelineVars, summaryVars, pc>>


\* lines 392-394: the first update_filters, called while initializing
SetupFilters ==
    /\ main = "wire"
    /\ initializing' = TRUE
    /\ stack' = <<Frame("update_filters", "direct")>>
    /\ main' = "setup_filters"
    /\ UNCHANGED <<widgetFrame, controls, updating_filters, suppress_plot, log, events>>

\* lines 395-396: the first update_plot
SetupPlot ==
    /\ main = "setup_filters"
    /\ stack = << >>
    /\ initializing' = FALSE
    /\ stack' = <<Frame("update_plot", "direct")>>
    /\ main' = "setup_plot"
    /\ UNCHANGED <<widgetFrame, controls, updating_filters, suppress_plot, log, events>>

\* lines 398-406
Display ==
    /\ main = "setup_plot"
    /\ stack = << >>
    /\ main' = "displayed"
    /\ log' = [log EXCEPT !.outcome = "returned"]
    /\ UNCHANGED <<widgetFrame, controls, updating_filters, suppress_plot,
                   initializing, stack, events>>

\* the values a user can give a control
Choices(control) ==
    CASE control = "metric_dropdown"     -> DOMAIN metric_families
      [] control = "min_minutes_slider"  -> MinuteChoices
      [] control = "min_volume_slider"   -> VolumeChoices
      [] control = "comparison_dropdown" -> ComparisonChoices
      [] control = "cohort_dropdown"     -> CohortChoices
      [] OTHER                           -> Range(controls[control].options)

\* the user changes the value of a displayed control: its observer is called
UserChanges ==
    /\ main = "displayed"
    /\ stack = << >>
    /\ events < MaxEvents
    /\ \E control \in DOMAIN Observer :
          \E v \in Choices(control) :
              /\ v # controls[control].value
              /\ controls' = [controls EXCEPT ![control].value = v]
              /\ stack' = <<Frame(Observer[control], "observer")>>
              /\ log' = NewLog(Observer[control], control, v)
    /\ events' = events + 1
    /\ UNCHANGED <<widgetFrame, updating_filters, suppress_plot, initializing, main>>

Running(fn, at) == stack # << >> /\ Top.fn = fn /\ Top.at = at

\* if updating_filters["active"]
Reentrant == updating_filters

\* lines 241-243: a call made while update_filters is active returns at once
FiltersGuard ==
    /\ Running("update_filters", "guard")
    /\ IF Reentrant
       THEN /\ stack' = Below
            /\ log' = [log EXCEPT !.reentered = @ + 1]
            /\ UNCHANGED updating_filters
       ELSE /\ stack' = Goto("read")
            /\ updating_filters' = TRUE
            /\ UNCHANGED log
    /\ UNCHANGED <<widgetFrame, controls, suppress_plot, initializing, main, events>>

\* lines 246-249
FiltersRead ==
    /\ Running("update_filters", "read")
    /\ stack' = Below \o
          <<[Top EXCEPT !.at = "default",
                        !.metric_family = controls.metric_dropdown.value,
                        !.min_minutes = controls.min_minutes_slider.value,
                        !.position_filter = controls.position_dropdown.value]>>
    /\ UNCHANGED <<widgetFrame, controls, updating_filters, suppress_plot,
                   initializing, main, log, events>>

\* VolumeAfterDefault leaving the slider as the user set it
VolumeAfterDefault_Kept(value, default) == value

\* lines 252-254: the value of the slider after them
VolumeAfterDefault(value, default) == IF value # default THEN default ELSE value

\* lines 251-254
FiltersDefault ==
    /\ Running("update_filters", "default")
    /\ LET v == VolumeAfterDefault(controls.min_volume_slider.value,
                    metric_families[Top.metric_family].min_volume_default)
       IN  /\ controls' = [controls EXCEPT !.min_volume_slider.value = v]
           /\ stack' = Assign("min_volume_slider", v, "eligible")
    /\ UNCHANGED <<widgetFrame, updating_filters, suppress_plot, initializing,
                   main, log, events>>

\* line 257
FiltersEligible ==
    /\ Running("update_filters", "eligible")
    /\ stack' = Below \o
          <<[Top EXCEPT !.at = "positions",
                        !.eligible = get_eligible_players(Top.metric_family,
                                        Top.min_minutes,
                                        controls.min_volume_slider.value)]>>
    /\ log' = [log EXCEPT !.eligible_volume = controls.min_volume_slider.value]
    /\ UNCHANGED <<widgetFrame, controls, updating_filters, suppress_plot,
                   initializing, main, events>>

\* lines 260-261
FiltersPositions ==
    /\ Running("update_filters", "positions")
    /\ LET positions == PositionsOf(Top.eligible)
       IN  /\ controls' = [controls EXCEPT !.position_dropdown =
                              [options |-> positions, value |-> FirstOption(positions)]]
           /\ stack' = Assign("position_dropdown", FirstOption(positions), "players")
    /\ UNCHANGED <<widgetFrame, updating_filters, suppress_plot, initializing,
                   main, log, events>>

\* lines 264-270
FiltersPlayers ==
    /\ Running("update_filters", "players")
    /\ stack' = Below \o
          <<[Top EXCEPT !.at = "clear_p1",
                        !.players = PlayersOf(Top.eligible, Top.position_filter)]>>
    /\ suppress_plot' = TRUE
    /\ UNCHANGED <<widgetFrame, controls, updating_filters, initializing, main,
                   log, events>>


\* the statements of the inner try block of lines 271-283
InnerTry == {"clear_p1", "clear_p2", "options_p1", "options_p2", "select_p1",
             "select_p2"}

\* lines 272-273
ClearPlayer ==
    \E step \in {<<"clear_p1", "player1_dropdown", "clear_p2">>,
                 <<"clear_p2", "player2_dropdown", "options_p1">>} :
        /\ Running("update_filters", step[1])
        /\ controls' = [controls EXCEPT ![step[2]].value = None]
        /\ stack' = Assign(step[2], None, step[3])
        /\ UNCHANGED <<widgetFrame, updating_filters, suppress_plot,
                       initializing, main, log, events>>

\* lines 275-276
OptionsPlayer ==
    \E step \in {<<"options_p1", "player1_dropdown", "options_p2">>,
                 <<"options_p2", "player2_dropdown", "select_p1">>} :
        /\ Running("update_filters", step[1])
        /\ controls' = [controls EXCEPT ![step[2]] =
                           [options |-> Top.players, value |-> FirstOption(Top.players)]]
        /\ stack' = Assign(step[2], FirstOption(Top.players), step[3])
        /\ UNCHANGED <<widgetFrame, updating_filters, suppress_plot,
                       initializing, main, log, events>>

\* lines 278-283: the value each player dropdown is given
Selected(control, names) ==
    IF control = "player2_dropdown" /\ Len(names) > 1 THEN names[2] ELSE names[1]

\* lines 278-283
SelectPlayer ==
    \E step \in {<<"select_p1", "player1_dropdown", "select_p2">>,
                 <<"select_p2", "player2_dropdown", "finally_inner">>} :
        /\ Running("update_filters", step[1])
        /\ IF Len(Top.players) > 0
           THEN /\ controls' = [controls EXCEPT ![step[2]].value =
                                   Selected(step[2], Top.players)]
                /\ stack' = Assign(step[2], Selected(step[2], Top.players), step[3])
           ELSE /\ controls' = controls
                /\ stack' = Goto(step[3])
        /\ UNCHANGED <<widgetFrame, updating_filters, suppress_plot,
                       initializing, main, log, events>>

\* where an exception raised by the statement `at` is caught first
Handler(at) == IF at \in InnerTry THEN "finally_inner" ELSE "finally_outer"

\* a statement of update_filters raises: the filtering of line 257 or the
\* assignment of line 275
FiltersRaise ==
    /\ stack # << >>
    /\ Top.fn = "update_filters"
    /\ Top.at \in {"eligible", "options_p1"}
    /\ stack' = Below \o <<[Top EXCEPT !.raised = TRUE, !.at = Handler(Top.at)]>>
    /\ UNCHANGED <<widgetFrame, controls, updating_filters, suppress_plot,
                   initializing, main, log, events>>

\* lines 284-285
FinallyInner ==
    /\ Running("update_filters", "finally_inner")
    /\ suppress_plot' = FALSE
    /\ stack' = Goto("finally_outer")
    /\ UNCHANGED <<widgetFrame, controls, updating_filters, initializing, main,
                   log, events>>

\* the statement the caller below was in when it called: its frame already
\* stands on the next one
Previous(at) ==
    CASE at = "clear_p2"      -> "clear_p1"
      [] at = "options_p1"    -> "clear_p2"
      [] at = "options_p2"    -> "options_p1"
      [] at = "select_p1"     -> "options_p2"
      [] at = "select_p2"     -> "select_p1"
      [] at = "finally_inner" -> "select_p2"
      [] OTHER                -> "default"

\* lines 287-288; an exception then leaves the callback: it ends the event,
\* or reaches the assignment of the caller whose observer this call was
FinallyOuter ==
    /\ Running("update_filters", "finally_outer")
    /\ updating_filters' = FALSE
    /\ IF ~Top.raised
       THEN /\ stack' = Goto("plot")
            /\ UNCHANGED <<main, log>>
       ELSE IF Len(stack) = 1
       THEN /\ stack' = << >>
            /\ log' = [log EXCEPT !.outcome = "raised"]
            /\ main' = IF main = "setup_filters" THEN "aborted" ELSE main
       ELSE /\ stack' = SubSeq(stack, 1, Len(stack) - 2) \o
                  <<[stack[Len(stack) - 1] EXCEPT
                        !.raised = TRUE,
                        !.at = Handler(Previous(stack[Len(stack) - 1].at))]>>
            /\ UNCHANGED <<main, log>>
    /\ UNCHANGED <<widgetFrame, controls, suppress_plot, initializing, events>>

\* lines 290-292
FiltersPlot ==
    /\ Running("update_filters", "plot")
    /\ stack' = IF ~initializing
                THEN Append(Goto("return"), Frame("update_plot", "direct"))
                ELSE Goto("return")
    /\ UNCHANGED <<widgetFrame, controls, updating_filters, suppress_plot,
                   initializing, main, log, events>>

\* the end of one run of a callback; the outermost one ends the event
Ended(new) ==
    IF Len(stack) = 1 /\ main = "displayed"
    THEN [new EXCEPT !.outcome = "returned"]
    ELSE new

FiltersReturn ==
    /\ Running("update_filters", "return")
    /\ stack' = Below
    /\ log' = Ended(log)
    /\ UNCHANGED <<widgetFrame, controls, updating_filters, suppress_plot,
                   initializing, main, events>>

\* PlotSuppressed looking at the initializing flag alone
PlotSuppressed_InitOnly == initializing

\* if suppress_plot["active"] or initializing["active"]
PlotSuppressed == suppress_plot \/ initializing

\* update_filters is between lines 270 and 285
ChangingPlayers ==
    \E i \in 1..Len(stack) :
        /\ stack[i].fn = "update_filters"
        /\ stack[i].at \in InnerTry \cup {"finally_inner"}

\* line 311: if not player1_name or not player2_name: return
PlayersChosen ==
    /\ controls.player1_dropdown.value # None
    /\ controls.player2_dropdown.value # None

\* lines 294-379: update_plot, which returns at once when suppressed,
\* otherwise reads the controls, and draws when both players are chosen
UpdatePlot ==
    /\ stack # << >>
    /\ Top.fn = "update_plot"
    /\ stack' = Below
    /\ LET called == IF Top.via = "direct"
                     THEN [log EXCEPT !.direct = @ + 1]
                     ELSE [log EXCEPT !.observed = @ + 1]
       IN  log' = Ended(IF PlotSuppressed THEN called
                        ELSE [called EXCEPT
                                !.passed = @ + 1,
                                !.drawn = IF PlayersChosen THEN @ + 1 ELSE @,
                                !.drawn_guarded = @ \/ ChangingPlayers \/ main = "setup_filters",
                                !.plot_volume = controls.min_volume_slider.value])
    /\ UNCHANGED <<widgetFrame, controls, updating_filters, suppress_plot,
                   initializing, main, events>>

NextWidget ==
    \/ SetupFilters
    \/ SetupPlot
    \/ Display
    \/ UserChanges
    \/ FiltersGuard
    \/ FiltersRead
    \/ FiltersDefault
    \/ FiltersEligible
    \/ FiltersPositions
    \/ FiltersPlayers
    \/ ClearPlayer
    \/ OptionsPlayer
    \/ SelectPlayer
    \/ FiltersRaise
    \/ FinallyInner
    \/ FinallyOuter
    \/ FiltersPlot
    \/ FiltersReturn
    \/ UpdatePlot

SpecWidget == InitWidget /\ [][NextWidget]_vars


(***************************************************************************)
(* The guards of the two callbacks.                                        *)
(***************************************************************************)
\* the frames of update_filters that are past its guard
ActiveFilters ==
    {i \in 1..Len(stack) : stack[i].fn = "update_filters" /\ stack[i].at # "guard"}

\* update_filters is not re-entrant: at most one run of it is past the
\* guard, and a call made while one is finds updating_filters set;
\* update_plot draws nothing while update_filters is changing the player
\* dropdowns or while the widget is initialising; when a top-level
\* update_filters has ended, by return or by exception, updating_filters
\* and suppress_plot are both false.
GuardsHold ==
    /\ Cardinality(ActiveFilters) <= 1
    /\ updating_filters =>
          \E i \in ActiveFilters : stack[i].at \notin {"plot", "return"}
    /\ (stack # << >> /\ Top.fn = "update_filters" /\ Top.at = "guard"
          /\ ActiveFilters # {}) => Reentrant
    /\ ~log.drawn_guarded
    /\ (suppress_plot \/ initializing) => log.passed = 0
    /\ stack = << >> => (~updating_filters /\ ~suppress_plot)

\* the event has ended by return: a top-level update_filters, or the setup
Completed == log.event \in {"update_filters", "setup"} /\ log.outcome = "returned"

\* C29: the guards of the callbacks hold (update_filters is not re-entrant,
\* update_plot draws nothing while the player dropdowns are being changed
\* or during initialisation, both flags are false once a top-level
\* update_filters has ended), and each top-level update_filters that
\* returns after the setup, like the setup itself, executes the update_plot()
\* statement once, and that one call gets past the guard of update_plot,
\* drawing when both players are chosen; the calls of update_plot made
\* meanwhile by the observers of the player dropdowns return at its guard;
\* an update_filters ended by an exception reaches no update_plot() statement
\* and draws nothing.
C29_CallbackGuards ==
    /\ GuardsHold
    /\ Completed =>
          /\ log.direct = 1
          /\ log.passed = 1
          /\ log.drawn = IF PlayersChosen THEN 1 ELSE 0
    /\ (log.event = "update_filters" /\ log.outcome = "raised") =>
          (log.direct = 0 /\ log.passed = 0)

\* C29 as stated: the guards hold and update_plot is called exactly once
\* for each top-level update_filters that returns and for the setup (the
\* calls made by the observers of the player dropdowns counted).
C29_ExactlyOnePlotCall ==
    /\ GuardsHold
    /\ Completed => log.direct + log.observed = 1

\* A top-level update_filters after the setup has returned: its own writes
\* called update_filters again and called update_plot through the observers
\* of the player dropdowns, and one plot was drawn.
C29_Witness ==
    /\ main = "displayed"
    /\ stack = << >>
    /\ log.event = "update_filters"
    /\ log.outcome = "returned"
    /\ log.reentered > 0
    /\ log.observed > 1
    /\ log.drawn = 1

\* A top-level update_filters has returned with no eligible player: its
\* update_plot() got past the guard and returned at line 311.
C29_WitnessNoPlayers ==
    /\ stack = << >>
    /\ log.event = "update_filters"
    /\ log.outcome = "returned"
    /\ log.passed = 1
    /\ log.drawn = 0

\* A top-level update_filters ended by an exception raised while
\* suppress_plot was set.
C29_WitnessRaised ==
    /\ stack = << >>
    /\ log.event = "update_filters"
    /\ log.outcome = "raised"
    /\ log.observed > 0

\* The setup has ended: update_plot was called by the observers of the
\* player dropdowns while initialising, and drew once, after it.
C29_WitnessSetup ==
    /\ main = "displayed"
    /\ log.event = "setup"
    /\ log.observed > 0
    /\ log.drawn = 1


(***************************************************************************)
(* The minimum volume the widget works with.                               *)
(***************************************************************************)
DefaultVolume == metric_families[controls.metric_dropdown.value].min_volume_default

=============================================================================
